---- MODULE Spec2Model ----
(***************************************************************************)
(* Reaction (like / unlike) subsystem and pending broadcast queue of the   *)
(* Nostr client: src/lib/nostr/client.ts and src/lib/nostr/pendingEvents.ts*)
(*                                                                         *)
(* Every `await` of the TypeScript code is a point where another call may  *)
(* run, so each async function is cut into one action per stretch of       *)
(* synchronous code and carries its position in a pc field.                *)
(***************************************************************************)
EXTENDS Integers, Sequences, FiniteSets, TLC

\* ------------------------------------------------------------------ bounds
\* likeTrack / unlikeTrack / addPendingEvent invocations in one behaviour
MaxCalls == 2
\* retryPendingEvents invocations in one behaviour
MaxSweeps == 2
\* advances of the wall clock in one behaviour
MaxTicks == 1
\* restoreSession / loginWith... invocations in one behaviour
MaxAuthCalls == 2
\* logout invocations in one behaviour
MaxLogouts == 1
\* swr invocations in one behaviour
MaxSwrCalls == 2

\* ------------------------------------------------------- program constants
DELETION_KIND == 5
REACTION_KIND == 7
MaxRetries == 10
MaxAgeMs == 7 * 24 * 60 * 60 * 1000

\* ------------------------------------------------------------- the world
Users == {"A", "B"}
Tracks == {"t1"}                 \* "pubkey:d-tag" keys of the tracks
Relays == {"r1", "r2"}
connectedRelays == Relays        \* relay set used by every querySync
\* The contents that count as a like: "+" and the two emoji (named here).
LikeMarkers == {"+", "heart", "call-me"}
TickSteps == {MaxAgeMs, MaxAgeMs + 1}   \* the 7 day age ceiling, and 1 ms more

None == "none"
NoRef == [pubkey |-> None, a |-> None, content |-> None, created_at |-> 0]
NoEvent ==
  [kind |-> 0, pubkey |-> None, created_at |-> 0, a |-> None, e |-> NoRef,
   content |-> None]

\* created_at: Math.floor(Date.now() / 1000)
Seconds(ms) == ms \div 1000

\* A kind 7 reaction naming a track by its 'a' tag.
ReactionEvent(u, t, c, ms) ==
  [kind |-> REACTION_KIND, pubkey |-> u, created_at |-> Seconds(ms), a |-> t,
   e |-> NoRef, content |-> c]

\* The id of an event is the hash of [0, pubkey, created_at, kind, tags,
\* content]: equal fields, equal id.
EventId(ev) == <<0, ev.pubkey, ev.created_at, ev.kind, ev.a, ev.e, ev.content>>

\* What an 'e' tag holds to name a reaction: the reaction's id, kept as the
\* fields that determine it.
RefOf(ev) ==
  [pubkey |-> ev.pubkey, a |-> ev.a, content |-> ev.content,
   created_at |-> ev.created_at]

\* A kind 5 deletion naming a reaction by its id in the 'e' tag.
DeletionEvent(u, rid, ms) ==
  [kind |-> DELETION_KIND, pubkey |-> u, created_at |-> Seconds(ms), a |-> None,
   e |-> rid, content |-> "unlike"]

VARIABLES
  now,              \* Date.now(), in ms
  ticks,            \* clock advances so far
  pendingStore,     \* localStorage['nostr-pending-events']: Seq of PendingEvent
  relayStore,       \* relay -> set of events the relay holds
  sweep,            \* the retryPendingEvents call in flight / last finished
  sweeps,           \* retryPendingEvents invocations so far
  currentSigner,    \* pubkey of the logged-in signer (auth.ts currentSigner)
  likedTracksCache, \* [loaded, refs]: loaded = FALSE is the null cache
  likedTracksCacheUserPubkey,
  like,             \* the likeTrack call in flight / last finished
  unlike,           \* the unlikeTrack call in flight / last finished
  preload,          \* the preloadLikedTracks call in flight
  calls,            \* likeTrack / unlikeTrack invocations so far
  currentUser,      \* auth.ts currentUser: pubkey of the user, or None
  bunkerInstance,   \* auth.ts bunkerInstance: a bunker id, or 0 for null
  openBunkers,      \* BunkerSigner objects connected and not closed
  vault,            \* the (auth_method, auth_data) pair in the Stronghold store
  authCalls,        \* call id -> restoreSession / loginWith... call
  logoutCall,       \* the logout call in flight / last finished
  logouts,          \* logout invocations so far
  member,           \* the isTrackLiked call in flight / last finished
  cacheEntry,       \* the cache entry behind getCached / setCache of swr
  swrCalls,         \* call id -> swr call with its background revalidation
  gossip,           \* the fetchArtistWithGossip call in flight / last finished
  savedNip65,       \* localStorage['qbz-nostr-nip65-relays']: Seq of Nip65Relay
  trackStore,       \* relay -> set of track events the relay holds
  trackFetch,       \* the track fetch call in flight / last finished
  fetcher,          \* call id -> the catch branch of the cached fetcher
  parseCall,        \* the last call of a function of types.ts: input, output
  rival,            \* a second retryPendingEvents call, overlapping the first
  peek,             \* the peekCachedLikedTracks call that last settled
  client            \* client.ts pool and connectedRelays, with their history

clockVars == <<now, ticks>>
queueVars == <<pendingStore, sweep, sweeps>>
cacheVars == <<likedTracksCache, likedTracksCacheUserPubkey>>
callVars == <<like, unlike, calls>>
authVars ==
  <<currentUser, bunkerInstance, openBunkers, vault, authCalls, logoutCall, logouts>>
swrVars == <<cacheEntry, swrCalls>>
otherVars == <<rival, peek, client>>
fetchVars ==
  <<gossip, savedNip65, trackStore, trackFetch, fetcher, parseCall, otherVars>>
sessionVars == <<authVars, member, swrVars, fetchVars>>
vars ==
  <<now, ticks, pendingStore, relayStore, sweep, sweeps, currentSigner,
    likedTracksCache, likedTracksCacheUserPubkey, like, unlike, preload, calls,
    currentUser, bunkerInstance, openBunkers, vault, authCalls, logoutCall,
    logouts, member, cacheEntry, swrCalls, gossip, savedNip65, trackStore,
    trackFetch, fetcher, parseCall, rival, peek, client>>

\* ---------------------------------------------------------------- relays
\* What a relay holds after accepting ev.  A relay applies a deletion to the
\* reaction it names (same author) and does not take a deleted reaction back.
RelayAccept(held, ev) ==
  IF ev.kind = DELETION_KIND
    THEN {x \in held : ~(x.kind = REACTION_KIND /\ RefOf(x) = ev.e
                          /\ x.pubkey = ev.pubkey)} \cup {ev}
    ELSE IF \E d \in held : d.kind = DELETION_KIND /\ d.e = RefOf(ev)
                             /\ d.pubkey = ev.pubkey
      THEN held
      ELSE held \cup {ev}

\* Promise.all(targetRelays.map(relay => pool.publish([relay], event))):
\* every relay of `accepted` takes the event, the others reject it.
PublishTo(store, ev, accepted) ==
  [r \in Relays |-> IF r \in accepted THEN RelayAccept(store[r], ev) ELSE store[r]]

\* ------------------------------------------------------- pendingEvents.ts
QueuedIds(q) == {EventId(q[i].event) : i \in 1..Len(q)}

\* A queue that skips the check of line 53 and appends unconditionally.
addPendingEventNoDedup(q, event, targetRelays, t) ==
  Append(q, [event |-> event, targetRelays |-> targetRelays,
             createdAt |-> t, retryCount |-> 0])

addPendingEvent(q, event, targetRelays, t) ==
  IF \E i \in 1..Len(q) : EventId(q[i].event) = EventId(event)
    THEN q
    ELSE Append(q, [event |-> event, targetRelays |-> targetRelays,
                    createdAt |-> t, retryCount |-> 0])

removePendingEvent(q, eventId) ==
  SelectSeq(q, LAMBDA p : EventId(p.event) # eventId)

\* A retry ceiling that lets an item with ten retries through once more.
TooManyRetriesOffByOne(item) == item.retryCount > 10

\* The two `continue` branches of the retry loop.
TooOld(item, t) == t - item.createdAt > MaxAgeMs
TooManyRetries(item) == item.retryCount >= MaxRetries

\* What the loop body does with an item before any publish: "old", "retries"
\* (dropped, no publish) or "publish".
Disposition(item, t) ==
  IF TooOld(item, t) THEN "old"
  ELSE IF TooManyRetries(item) THEN "retries"
  ELSE "publish"

\* A failed item kept without counting the attempt.
RequeuedSameCount(item) == item

\* remaining.push({...item, retryCount: item.retryCount + 1})
Requeued(item) == [item EXCEPT !.retryCount = item.retryCount + 1]

\* First index >= i of an item the loop publishes at time t; Len + 1 if none.
RECURSIVE NextPublishable(_, _, _)
NextPublishable(pending, i, t) ==
  IF i > Len(pending) THEN i
  ELSE IF Disposition(pending[i], t) = "publish" THEN i
  ELSE NextPublishable(pending, i + 1, t)

\* The loop's record of what it did with items i .. j-1, all dropped at time t.
Dropped(pending, i, j, t) == [k \in i..(j - 1) |-> Disposition(pending[k], t)]

IdleSweep ==
  [pc |-> "idle", pending |-> <<>>, i |-> 0, remaining |-> <<>>,
   did |-> <<>>, startedAt |-> 0, successCount |-> 0]

\* The loop from index `from` on, after `did` was done with the items before
\* it: drop what is to be dropped, then either await the next publish or fall
\* out of the loop and savePendingEvents(remaining).
RetryContinue(sw, from, remaining, did, successCount) ==
  LET j == NextPublishable(sw.pending, from, now)
      did2 == did @@ Dropped(sw.pending, from, j, now)
  IN IF j > Len(sw.pending)
       THEN /\ pendingStore' = remaining
            /\ sweep' = [sw EXCEPT !.pc = "done", !.i = j, !.remaining = remaining,
                                   !.did = did2, !.successCount = successCount]
       ELSE /\ UNCHANGED pendingStore
            /\ sweep' = [sw EXCEPT !.pc = "publishing", !.i = j,
                                   !.remaining = remaining, !.did = did2,
                                   !.successCount = successCount]

\* The same loop run by a second call of retryPendingEvents, which has its
\* own `pending` and `remaining` and the same localStorage entry.
RivalContinue(sw, from, remaining, did, successCount) ==
  LET j == NextPublishable(sw.pending, from, now)
      did2 == did @@ Dropped(sw.pending, from, j, now)
  IN IF j > Len(sw.pending)
       THEN /\ pendingStore' = remaining
            /\ rival' = [sw EXCEPT !.pc = "done", !.i = j, !.remaining = remaining,
                                   !.did = did2, !.successCount = successCount]
       ELSE /\ UNCHANGED pendingStore
            /\ rival' = [sw EXCEPT !.pc = "publishing", !.i = j,
                                   !.remaining = remaining, !.did = did2,
                                   !.successCount = successCount]

\* The body of retryPendingEvents() up to its first await (or to its return).
RetryBegin ==
  /\ sweep.pc # "publishing"
  /\ LET sw == [IdleSweep EXCEPT !.pending = pendingStore, !.startedAt = now]
     IN IF Len(sw.pending) = 0
          THEN /\ sweep' = [sw EXCEPT !.pc = "done"]
               /\ UNCHANGED pendingStore
          ELSE RetryContinue(sw, 1, <<>>, <<>>, 0)
  /\ UNCHANGED <<sessionVars, clockVars, relayStore, currentSigner, cacheVars, callVars, preload>>

\* retryPendingEvents(), one of the counted invocations of a behaviour.
RetryStart ==
  /\ sweeps < MaxSweeps
  /\ sweeps' = sweeps + 1
  /\ RetryBegin

\* retryPendingEvents() on a trigger that keeps firing: one more sweep of a
\* non-empty queue, whatever the number of sweeps before it.
RetryTriggered ==
  /\ pendingStore # <<>>
  /\ UNCHANGED sweeps
  /\ RetryBegin

\* The awaited Promise.all settles: the relays of `accepted` took the event.
RetryPublished(accepted) ==
  /\ sweep.pc = "publishing"
  /\ LET item == sweep.pending[sweep.i]
         ok == accepted = item.targetRelays
         did == sweep.did @@ (sweep.i :> IF ok THEN "ok" ELSE "fail")
     IN /\ accepted \subseteq item.targetRelays
        /\ relayStore' = PublishTo(relayStore, item.event, accepted)
        /\ IF ok
             THEN RetryContinue(sweep, sweep.i + 1, sweep.remaining, did,
                                sweep.successCount + 1)
             ELSE RetryContinue(sweep, sweep.i + 1,
                                Append(sweep.remaining, Requeued(item)), did,
                                sweep.successCount)
  /\ UNCHANGED <<sessionVars, clockVars, sweeps, currentSigner, cacheVars, callVars, preload>>

\* retryPendingEvents() is called once more while a call of it awaits a
\* publish; this call overlaps that one, and any call made before it ends.
RivalStart ==
  /\ sweep.pc = "publishing"
  /\ rival.pc = "idle"
  /\ UNCHANGED sweeps
  /\ RivalContinue([IdleSweep EXCEPT !.pending = pendingStore, !.startedAt = now],
                   1, <<>>, <<>>, 0)
  /\ UNCHANGED <<authVars, member, swrVars, gossip, savedNip65, trackStore,
                 trackFetch, fetcher, parseCall, peek, client,
                 clockVars, relayStore,
                 sweep, currentSigner, cacheVars, callVars, preload>>

\* The Promise.all awaited by the second call settles.
RivalPublished(accepted) ==
  /\ rival.pc = "publishing"
  /\ LET item == rival.pending[rival.i]
         ok == accepted = item.targetRelays
         did == rival.did @@ (rival.i :> IF ok THEN "ok" ELSE "fail")
     IN /\ accepted \subseteq item.targetRelays
        /\ relayStore' = PublishTo(relayStore, item.event, accepted)
        /\ IF ok
             THEN RivalContinue(rival, rival.i + 1, rival.remaining, did,
                                rival.successCount + 1)
             ELSE RivalContinue(rival, rival.i + 1,
                                Append(rival.remaining, Requeued(item)), did,
                                rival.successCount)
  /\ UNCHANGED <<authVars, member, swrVars, gossip, savedNip65, trackStore,
                 trackFetch, fetcher, parseCall, peek, client,
                 clockVars, sweep, sweeps,
                 currentSigner, cacheVars, callVars, preload>>

\* removePendingEvent(eventId), exported for any caller.
RemovePending(i) ==
  /\ i \in 1..Len(pendingStore)
  /\ pendingStore' = removePendingEvent(pendingStore, EventId(pendingStore[i].event))
  /\ UNCHANGED <<sessionVars, clockVars, relayStore, sweep, sweeps, currentSigner, cacheVars,
                 callVars, preload>>

\* -------------------------------------------------------------- client.ts
NoCache == [loaded |-> FALSE, refs |-> {}]

\* A like that leaves the cache as it was.
addToLikedCacheNever(cache, t) == cache

addToLikedCache(cache, t) ==
  IF cache.loaded THEN [cache EXCEPT !.refs = @ \cup {t}] ELSE cache

removeFromLikedCache(cache, t) ==
  IF cache.loaded THEN [cache EXCEPT !.refs = @ \ {t}] ELSE cache

\* p.querySync(connectedRelays, filter) before the filter: what the connected
\* relays hold between them, merged.
Returned(store) == UNION {store[r] : r \in connectedRelays}

\* A test that takes every reaction for a like.
IsLikeAnyContent(ev) == TRUE

\* event.content === '+' || ... : the reaction is a like.
IsLike(ev) == ev.content \in LikeMarkers

\* The set of track keys of the user's like reactions.
fetchUserLikedTrackRefs(store, u) ==
  {x.a : x \in {y \in Returned(store) :
                  y.kind = REACTION_KIND /\ y.pubkey = u /\ IsLike(y)}}

\* A lookup that takes any reaction of the user on the track, like or not.
findUserReactionEventIdAnyContent(store, u, t) ==
  {RefOf(x) : x \in {y \in Returned(store) :
                       y.kind = REACTION_KIND /\ y.pubkey = u /\ y.a = t}}

\* The ids findUserReactionEventId can return: it returns the first like among
\* the user's reactions naming the track, in the order the pool hands them
\* back; the empty set stands for null.
findUserReactionEventId(store, u, t) ==
  {RefOf(x) : x \in {y \in Returned(store) :
                       y.kind = REACTION_KIND /\ y.pubkey = u /\ y.a = t
                       /\ IsLike(y)}}

\* loadSavedRelays(): the saved bootstrap relays, the ones the pool is
\* connected to.
loadSavedRelays == connectedRelays

\* nostrSettingsStore.ts getUserWriteRelays(): the saved NIP-65 write relays,
\* or the bootstrap relays when there is none.
getUserWriteRelays(saved, bootstrap) ==
  LET writeRelays == {saved[i].url : i \in {k \in 1..Len(saved) : saved[k].write}}
  IN IF writeRelays = {} THEN bootstrap ELSE writeRelays

\* getUserWriteRelays(), and the relay lists fetchNip65Relays can come back
\* with for the artist.
UserWriteRelays == getUserWriteRelays(savedNip65, loadSavedRelays)
ArtistRelayLists ==
  { <<>>,
    <<[url |-> "r2", read |-> TRUE, write |-> FALSE]>>,
    <<[url |-> "r1", read |-> TRUE, write |-> TRUE],
      [url |-> "r2", read |-> FALSE, write |-> TRUE]>> }

\* The lists among them that give different target sets to a user whose
\* write relay is r1.
DistinctTargetLists == {l \in ArtistRelayLists : Len(l) <= 1}

\* The NIP-65 lists a user can have saved: none, r1 for both, r2 read-only,
\* r2 write-only.
SavedNip65Lists ==
  { <<>>,
    <<[url |-> "r1", read |-> TRUE, write |-> TRUE]>>,
    <<[url |-> "r2", read |-> TRUE, write |-> FALSE]>>,
    <<[url |-> "r2", read |-> FALSE, write |-> TRUE]>> }

\* A target set that leaves the artist's relays out.
TargetRelaysOwnOnly(nip65) == UserWriteRelays

\* [...new Set([...userWriteRelays, ...artistReadRelays])]
TargetRelays(nip65) ==
  UserWriteRelays \cup {nip65[k].url : k \in {i \in 1..Len(nip65) : nip65[i].read}}

\* A call record: where the call is (pc), its arguments, the event it signed,
\* its target relay set, the relays that accepted the event and how the call
\* ended ("returned", "threw", or unlikeTrack's "true" / "false").  Three
\* history flags: duringPreload (likeTrack: the call added its track to a
\* loaded cache while a preloadLikedTracks of the same user was awaiting its
\* query), priorLike (likeTrack: the user already had a like of the
\* track on the relays when the call signed) and afterLike (unlikeTrack: the
\* call started after the user's likeTrack of the same track had finished, and
\* no likeTrack has started since).
IdleCall ==
  [pc |-> "idle", user |-> None, track |-> None, event |-> NoEvent,
   targetRelays |-> {}, accepted |-> {}, result |-> "none",
   priorLike |-> FALSE, afterLike |-> FALSE, duringPreload |-> FALSE,
   artistNip65 |-> <<>>]

\* How likeTrack ends when the publish was rejected by some relay.
LikePublishFailed(call, accepted) ==
  [call EXCEPT !.pc = "done", !.accepted = accepted,
               !.result = "threw"]

\* How unlikeTrack ends when the publish was rejected by some relay.
\* A catch block that rethrows, as the one of likeTrack does.
UnlikePublishFailedRaised(call, accepted) ==
  [call EXCEPT !.pc = "done", !.accepted = accepted, !.result = "threw"]

UnlikePublishFailed(call, accepted) ==
  [call EXCEPT !.pc = "done", !.accepted = accepted,
               !.result = "true"]

\* likeTrack(trackEventId, trackPubkey, trackDTag) up to the await of
\* fetchNip65Relays: sign, then addToLikedCache.
LikeSign(t) ==
  /\ like.pc \in {"idle", "done"}
  /\ calls < MaxCalls
  /\ currentSigner # None
  /\ LET event == ReactionEvent(currentSigner, t, "+", now)
     IN like' = [IdleCall EXCEPT
                   !.pc = "lookup", !.user = currentSigner, !.track = t,
                   !.event = event,
                   !.priorLike =
                     findUserReactionEventId(relayStore, currentSigner, t) # {},
                   !.duringPreload =
                     /\ likedTracksCache.loaded
                     /\ preload.pc = "fetching"
                     /\ preload.user = currentSigner]
  /\ unlike' = [unlike EXCEPT !.afterLike = FALSE]
  /\ likedTracksCache' = addToLikedCache(likedTracksCache, t)
  /\ calls' = calls + 1
  /\ UNCHANGED <<sessionVars, clockVars, queueVars, relayStore, currentSigner,
                 likedTracksCacheUserPubkey, preload>>

\* fetchNip65Relays(trackPubkey) resolves; the publishes are started.
LikeLookup(nip65) ==
  /\ like.pc = "lookup"
  /\ like' = [like EXCEPT !.pc = "publishing", !.artistNip65 = nip65,
                          !.targetRelays = TargetRelays(nip65)]
  /\ UNCHANGED <<sessionVars, clockVars, queueVars, relayStore, currentSigner, cacheVars,
                 unlike, calls, preload>>

\* fetchNip65Relays(trackPubkey) rejects: nothing catches it in likeTrack.
LikeLookupFailed ==
  /\ like.pc = "lookup"
  /\ like' = [like EXCEPT !.pc = "done", !.result = "threw"]
  /\ UNCHANGED <<sessionVars, clockVars, queueVars, relayStore, currentSigner, cacheVars,
                 unlike, calls, preload>>

\* The awaited Promise.all of likeTrack settles.
LikePublished(accepted) ==
  /\ like.pc = "publishing"
  /\ accepted \subseteq like.targetRelays
  /\ relayStore' = PublishTo(relayStore, like.event, accepted)
  /\ IF accepted = like.targetRelays
       THEN /\ like' = [like EXCEPT !.pc = "done",
                                    !.accepted = accepted, !.result = "returned"]
            /\ UNCHANGED pendingStore
       ELSE /\ pendingStore' =
                 addPendingEvent(pendingStore, like.event, like.targetRelays, now)
            /\ like' = LikePublishFailed(like, accepted)
  /\ UNCHANGED <<sessionVars, clockVars, sweep, sweeps, currentSigner, cacheVars, unlike,
                 calls, preload>>

\* unlikeTrack(userPubkey, ...): findUserReactionEventId finds no like.
UnlikeNotFound(u, t) ==
  /\ unlike.pc \in {"idle", "done"}
  /\ calls < MaxCalls
  /\ findUserReactionEventId(relayStore, u, t) = {}
  /\ unlike' = [IdleCall EXCEPT !.pc = "done", !.user = u, !.track = t,
                                !.result = "false"]
  /\ calls' = calls + 1
  /\ UNCHANGED <<sessionVars, clockVars, queueVars, relayStore, currentSigner, cacheVars,
                 like, preload>>

\* unlikeTrack: the query of findUserReactionEventId rejects.
UnlikeQueryFailed(u, t) ==
  /\ unlike.pc \in {"idle", "done"}
  /\ calls < MaxCalls
  /\ unlike' = [IdleCall EXCEPT !.pc = "done", !.user = u, !.track = t,
                                !.result = "threw"]
  /\ calls' = calls + 1
  /\ UNCHANGED <<sessionVars, clockVars, queueVars, relayStore, currentSigner, cacheVars,
                 like, preload>>

\* unlikeTrack: a like is found; sign the deletion, then removeFromLikedCache.
UnlikeSign(u, t, reactionEventId) ==
  /\ unlike.pc \in {"idle", "done"}
  /\ calls < MaxCalls
  /\ currentSigner # None
  /\ reactionEventId \in findUserReactionEventId(relayStore, u, t)
  /\ LET event == DeletionEvent(currentSigner, reactionEventId, now)
     IN unlike' = [IdleCall EXCEPT
                     !.pc = "lookup", !.user = u, !.track = t, !.event = event,
                     !.afterLike = (like.pc = "done" /\ like.user = u
                                    /\ like.track = t)]
  /\ likedTracksCache' = removeFromLikedCache(likedTracksCache, t)
  /\ calls' = calls + 1
  /\ UNCHANGED <<sessionVars, clockVars, queueVars, relayStore, currentSigner,
                 likedTracksCacheUserPubkey, like, preload>>

UnlikeLookup(nip65) ==
  /\ unlike.pc = "lookup"
  /\ unlike' = [unlike EXCEPT !.pc = "publishing", !.artistNip65 = nip65,
                              !.targetRelays = TargetRelays(nip65)]
  /\ UNCHANGED <<sessionVars, clockVars, queueVars, relayStore, currentSigner, cacheVars,
                 like, calls, preload>>

UnlikeLookupFailed ==
  /\ unlike.pc = "lookup"
  /\ unlike' = [unlike EXCEPT !.pc = "done", !.result = "threw"]
  /\ UNCHANGED <<sessionVars, clockVars, queueVars, relayStore, currentSigner, cacheVars,
                 like, calls, preload>>

\* The awaited Promise.all of unlikeTrack settles.
UnlikePublished(accepted) ==
  /\ unlike.pc = "publishing"
  /\ accepted \subseteq unlike.targetRelays
  /\ relayStore' = PublishTo(relayStore, unlike.event, accepted)
  /\ IF accepted = unlike.targetRelays
       THEN /\ unlike' = [unlike EXCEPT !.pc = "done",
                                        !.accepted = accepted, !.result = "true"]
            /\ UNCHANGED pendingStore
       ELSE /\ pendingStore' =
                 addPendingEvent(pendingStore, unlike.event, unlike.targetRelays, now)
            /\ unlike' = UnlikePublishFailed(unlike, accepted)
  /\ UNCHANGED <<sessionVars, clockVars, sweep, sweeps, currentSigner, cacheVars, like,
                 calls, preload>>

\* ------------------------------------------------ signing with no signer
NotLoggedIn == "Not logged in"

\* A signEvent that hands the template to the signer without looking at it.
signEventUnchecked(signer, template) ==
  [ok |-> TRUE, event |-> [template EXCEPT !.pubkey = signer], error |-> None]

\* auth.ts signEvent(event): throws when currentSigner is null, else the
\* signer's signature over the template.
signEvent(signer, template) ==
  IF signer = None
    THEN [ok |-> FALSE, event |-> NoEvent, error |-> NotLoggedIn]
    ELSE [ok |-> TRUE, event |-> [template EXCEPT !.pubkey = signer],
          error |-> None]

\* likeTrack(...) called while nobody is logged in, up to its first await
\* after signEvent: a rejected signEvent rejects likeTrack on the spot.
LikeUnsigned(t) ==
  /\ like.pc \in {"idle", "done"}
  /\ calls < MaxCalls
  /\ currentSigner = None
  /\ calls' = calls + 1
  /\ LET signed == signEvent(currentSigner, ReactionEvent(None, t, "+", now))
     IN IF signed.ok
          THEN /\ like' = [IdleCall EXCEPT !.pc = "lookup", !.track = t,
                                           !.event = signed.event]
               /\ likedTracksCache' = addToLikedCache(likedTracksCache, t)
          ELSE /\ like' = [IdleCall EXCEPT !.pc = "done", !.track = t,
                                           !.result = signed.error]
               /\ UNCHANGED likedTracksCache
  /\ UNCHANGED <<sessionVars, clockVars, queueVars, relayStore, currentSigner,
                 likedTracksCacheUserPubkey, unlike, preload>>

\* ------------------------------------------------- membership and preload
IdlePreload == [pc |-> "idle", user |-> None, refs |-> {}]

\* A cache check that forgets whose cache it is.
CacheHitAnyOwner(u) == likedTracksCache.loaded

\* likedTracksCache && likedTracksCacheUserPubkey === userPubkey
CacheHit(u) == likedTracksCache.loaded /\ likedTracksCacheUserPubkey = u

\* What isTrackLiked(userPubkey, trackPubkey, trackDTag) returns: from the
\* cache on a hit, from a full fetch on a miss.
isTrackLiked(cache, owner, store, u, t) ==
  IF cache.loaded /\ owner = u
    THEN t \in cache.refs
    ELSE t \in fetchUserLikedTrackRefs(store, u)

\* preloadLikedTracks(userPubkey): the query is sent and answered.
PreloadStart(u) ==
  /\ preload.pc = "idle"
  /\ preload' = [pc |-> "fetching", user |-> u,
                 refs |-> fetchUserLikedTrackRefs(relayStore, u)]
  /\ UNCHANGED <<sessionVars, clockVars, queueVars, relayStore, currentSigner, cacheVars,
                 callVars>>

\* fetchUserLikedTrackRefs resolves: the cache and its owner are replaced.
PreloadDone ==
  /\ preload.pc = "fetching"
  /\ likedTracksCache' = [loaded |-> TRUE, refs |-> preload.refs]
  /\ likedTracksCacheUserPubkey' = preload.user
  /\ preload' = IdlePreload
  /\ UNCHANGED <<sessionVars, clockVars, queueVars, relayStore, currentSigner, callVars>>

\* fetchUserLikedTrackRefs rejects: the cache is left as it was.
PreloadFailed ==
  /\ preload.pc = "fetching"
  /\ preload' = IdlePreload
  /\ UNCHANGED <<sessionVars, clockVars, queueVars, relayStore, currentSigner, cacheVars,
                 callVars>>

\* ---------------------------------------------------------------- auth.ts
\* The stored session, and the credentials a login can be given.  `data`
\* stands for the secret and names the pubkey it yields; "bad" is a
\* credential that loginWithNsec / loginWithBunker reject.
NoSession == [method |-> "none", data |-> "none"]
Credentials ==
  { [method |-> "nsec", data |-> "A"],
    [method |-> "bunker", data |-> "B"],
    [method |-> "nsec", data |-> "bad"] }

\* The format checks of loginWithNsec and the parse of loginWithBunker.
ValidCredential(session) == session.data \in Users

AuthCallIds == 1..MaxAuthCalls

\* A restoreSession or loginWith... call.  loaded: loadSession answered this
\* call; handshake: this call entered a login; overlapping: a restoreSession
\* was in flight when this one was called; wasLoggedIn: isLoggedIn() held
\* when this one was called.
IdleAuthCall ==
  [kind |-> "none", pc |-> "idle", session |-> NoSession, result |-> None,
   loaded |-> FALSE, handshake |-> FALSE, overlapping |-> FALSE,
   wasLoggedIn |-> FALSE]

\* cleared: the vault operation of the call succeeded; used: the restore and
\* login calls made before the call; quiet: none of them was in flight.
IdleLogout == [pc |-> "idle", cleared |-> FALSE, used |-> 0, quiet |-> TRUE]

RestoreInFlight(c) ==
  authCalls[c].kind = "restore" /\ authCalls[c].pc \notin {"idle", "done"}

\* The next unused call id.
FreeCall(c) ==
  /\ authCalls[c].pc = "idle"
  /\ \A d \in AuthCallIds : d < c => authCalls[d].pc # "idle"

isLoggedIn == currentUser # None /\ currentSigner # None

\* loginWithNsec / loginWithBunker up to the first await, for `session`:
\* where the call stands next.
LoginEntered(call, session) ==
  IF ~ValidCredential(session)
    THEN IF call.kind = "restore"
           THEN [call EXCEPT !.session = session, !.handshake = TRUE,
                             !.pc = "clearing"]
           ELSE [call EXCEPT !.session = session, !.handshake = TRUE,
                             !.pc = "done", !.result = "threw"]
    ELSE [call EXCEPT !.session = session, !.handshake = TRUE,
                      !.pc = IF session.method = "bunker" THEN "connecting"
                             ELSE "keyed"]

\* restoreSession() is called: it awaits loadSession().
RestoreStart(c) ==
  /\ FreeCall(c)
  /\ authCalls' = [authCalls EXCEPT ![c] =
       [IdleAuthCall EXCEPT !.kind = "restore", !.pc = "loading",
          !.wasLoggedIn = isLoggedIn,
          !.overlapping = \E d \in AuthCallIds : RestoreInFlight(d)]]
  /\ UNCHANGED <<fetchVars, clockVars, queueVars, relayStore, currentSigner, cacheVars,
                 callVars, preload, currentUser, bunkerInstance, openBunkers,
                 vault, logoutCall, logouts, member, swrVars>>

\* loadSession() answers with what the vault holds: no session returns null,
\* otherwise the login of the stored method is entered.
RestoreLoaded(c) ==
  /\ authCalls[c].kind = "restore" /\ authCalls[c].pc = "loading"
  /\ authCalls' = [authCalls EXCEPT ![c] =
       IF vault = NoSession
         THEN [@ EXCEPT !.loaded = TRUE, !.pc = "done", !.result = "null"]
         ELSE LoginEntered([@ EXCEPT !.loaded = TRUE], vault)]
  /\ UNCHANGED <<fetchVars, clockVars, queueVars, relayStore, currentSigner, cacheVars,
                 callVars, preload, currentUser, bunkerInstance, openBunkers,
                 vault, logoutCall, logouts, member, swrVars>>

\* loginWithNsec(data) / loginWithBunker(data) called from the login view.
LoginStart(c, session) ==
  /\ FreeCall(c)
  /\ authCalls' = [authCalls EXCEPT ![c] =
       LoginEntered([IdleAuthCall EXCEPT !.kind = "login",
                                         !.wasLoggedIn = isLoggedIn], session)]
  /\ UNCHANGED <<fetchVars, clockVars, queueVars, relayStore, currentSigner, cacheVars,
                 callVars, preload, currentUser, bunkerInstance, openBunkers,
                 vault, logoutCall, logouts, member, swrVars>>

\* bunker.connect() and bunker.getPublicKey() resolve: the bunker of this
\* call is open.
BunkerConnected(c) ==
  /\ authCalls[c].pc = "connecting"
  /\ openBunkers' = openBunkers \cup {c}
  /\ authCalls' = [authCalls EXCEPT ![c].pc = "keyed"]
  /\ UNCHANGED <<fetchVars, clockVars, queueVars, relayStore, currentSigner, cacheVars,
                 callVars, preload, currentUser, bunkerInstance, vault,
                 logoutCall, logouts, member, swrVars>>

\* bunker.connect() rejects: a login throws, a restoreSession goes to its
\* catch block and awaits clearSession().
BunkerConnectFailed(c) ==
  /\ authCalls[c].pc = "connecting"
  /\ authCalls' = [authCalls EXCEPT ![c] =
       IF @.kind = "restore" THEN [@ EXCEPT !.pc = "clearing"]
       ELSE [@ EXCEPT !.pc = "done", !.result = "threw"]]
  /\ UNCHANGED <<fetchVars, clockVars, queueVars, relayStore, currentSigner, cacheVars,
                 callVars, preload, currentUser, bunkerInstance, openBunkers,
                 vault, logoutCall, logouts, member, swrVars>>

\* The pubkey is known: currentSigner and currentUser are set (and
\* bunkerInstance, by loginWithBunker only); the call awaits saveSession().
LoginSet(c) ==
  /\ authCalls[c].pc = "keyed"
  /\ currentSigner' = authCalls[c].session.data
  /\ currentUser' = authCalls[c].session.data
  /\ bunkerInstance' = IF authCalls[c].session.method = "bunker" THEN c
                       ELSE bunkerInstance
  /\ authCalls' = [authCalls EXCEPT ![c].pc = "saving"]
  /\ UNCHANGED <<fetchVars, clockVars, queueVars, relayStore, cacheVars, callVars, preload,
                 openBunkers, vault, logoutCall, logouts, member, swrVars>>

\* saveSession() resolves; the login returns the module's currentUser.
LoginSaved(c) ==
  /\ authCalls[c].pc = "saving"
  /\ vault' = authCalls[c].session
  /\ authCalls' = [authCalls EXCEPT ![c].pc = "done",
       ![c].result = IF currentUser = None THEN "null" ELSE currentUser]
  /\ UNCHANGED <<fetchVars, clockVars, queueVars, relayStore, currentSigner, cacheVars,
                 callVars, preload, currentUser, bunkerInstance, openBunkers,
                 logoutCall, logouts, member, swrVars>>

\* saveSession() rejects (Stronghold not initialized, or an insert or the save
\* fails before the pair is replaced): a login throws, a restoreSession goes
\* to its catch block and awaits clearSession().  User and signer stay set.
LoginSaveFailed(c) ==
  /\ authCalls[c].pc = "saving"
  /\ authCalls' = [authCalls EXCEPT ![c] =
       IF @.kind = "restore" THEN [@ EXCEPT !.pc = "clearing"]
       ELSE [@ EXCEPT !.pc = "done", !.result = "threw"]]
  /\ UNCHANGED <<fetchVars, clockVars, queueVars, relayStore, currentSigner, cacheVars,
                 callVars, preload, currentUser, bunkerInstance, openBunkers,
                 vault, logoutCall, logouts, member, swrVars>>

\* clearSession(): the stored pair is removed; a failure of the vault is
\* caught and logged, and the pair stays.
clearSession(stored, ok) == IF ok THEN NoSession ELSE stored

\* The clearSession() of restoreSession's catch block settles.
RestoreCleared(c, ok) ==
  /\ authCalls[c].pc = "clearing"
  /\ vault' = clearSession(vault, ok)
  /\ authCalls' = [authCalls EXCEPT ![c].pc = "done", ![c].result = "null"]
  /\ UNCHANGED <<fetchVars, clockVars, queueVars, relayStore, currentSigner, cacheVars,
                 callVars, preload, currentUser, bunkerInstance, openBunkers,
                 logoutCall, logouts, member, swrVars>>

\* logout() up to its await: the bunker of bunkerInstance is closed and
\* dropped, user and signer are cleared.
LogoutStart ==
  /\ logoutCall.pc # "clearing"
  /\ logouts < MaxLogouts
  /\ logouts' = logouts + 1
  /\ openBunkers' = openBunkers \ {bunkerInstance}
  /\ bunkerInstance' = 0
  /\ currentUser' = None
  /\ currentSigner' = None
  /\ logoutCall' = [pc |-> "clearing", cleared |-> FALSE,
                    used |-> Cardinality({c \in AuthCallIds :
                                            authCalls[c].pc # "idle"}),
                    quiet |-> \A c \in AuthCallIds :
                                authCalls[c].pc \in {"idle", "done"}]
  /\ UNCHANGED <<fetchVars, clockVars, queueVars, relayStore, cacheVars, callVars, preload,
                 vault, authCalls, member, swrVars>>

\* The clearSession() of logout settles; logout returns, and with it
\* logoutNostr (clearNip65Relays, setLoggedOut).
LogoutCleared(ok) ==
  /\ logoutCall.pc = "clearing"
  /\ vault' = clearSession(vault, ok)
  /\ logoutCall' = [logoutCall EXCEPT !.pc = "done", !.cleared = ok]
  /\ UNCHANGED <<fetchVars, clockVars, queueVars, relayStore, currentSigner, cacheVars,
                 callVars, preload, currentUser, bunkerInstance, openBunkers,
                 authCalls, logouts, member, swrVars>>

\* ------------------------------------------------- client.ts, isTrackLiked
\* An isTrackLiked call.  queries: relay queries this call issued; fetched:
\* the set its query came back with.
IdleMember ==
  [pc |-> "idle", user |-> None, track |-> None, queries |-> 0,
   fetched |-> {}, answer |-> "none"]

Bool(b) == IF b THEN "true" ELSE "false"

\* isTrackLiked(u, ...) on a cache of u: answers from the cache.
IsLikedHit(u, t) ==
  /\ member.pc \in {"idle", "done"}
  /\ CacheHit(u)
  /\ member' = [IdleMember EXCEPT !.pc = "done", !.user = u, !.track = t,
                  !.answer = Bool(t \in likedTracksCache.refs)]
  /\ UNCHANGED <<fetchVars, clockVars, queueVars, relayStore, currentSigner, cacheVars,
                 callVars, preload, authVars, swrVars>>

\* isTrackLiked(u, ...) otherwise: preloadLikedTracks(u) sends its query.
IsLikedMiss(u, t) ==
  /\ member.pc \in {"idle", "done"}
  /\ ~CacheHit(u)
  /\ member' = [IdleMember EXCEPT !.pc = "fetching", !.user = u, !.track = t,
                  !.queries = 1,
                  !.fetched = fetchUserLikedTrackRefs(relayStore, u)]
  /\ UNCHANGED <<fetchVars, clockVars, queueVars, relayStore, currentSigner, cacheVars,
                 callVars, preload, authVars, swrVars>>

\* The query resolves inside preloadLikedTracks: cache and owner are set.
IsLikedFetched ==
  /\ member.pc = "fetching"
  /\ likedTracksCache' = [loaded |-> TRUE, refs |-> member.fetched]
  /\ likedTracksCacheUserPubkey' = member.user
  /\ member' = [member EXCEPT !.pc = "answering"]
  /\ UNCHANGED <<fetchVars, clockVars, queueVars, relayStore, currentSigner, callVars,
                 preload, authVars, swrVars>>

\* The query rejects: preloadLikedTracks and isTrackLiked reject.
IsLikedFailed ==
  /\ member.pc = "fetching"
  /\ member' = [member EXCEPT !.pc = "done", !.answer = "threw"]
  /\ UNCHANGED <<fetchVars, clockVars, queueVars, relayStore, currentSigner, cacheVars,
                 callVars, preload, authVars, swrVars>>

\* return likedTracksCache?.has(key) ?? false
IsLikedAnswer ==
  /\ member.pc = "answering"
  /\ member' = [member EXCEPT !.pc = "done",
       !.answer = Bool(likedTracksCache.loaded
                       /\ member.track \in likedTracksCache.refs)]
  /\ UNCHANGED <<fetchVars, clockVars, queueVars, relayStore, currentSigner, cacheVars,
                 callVars, preload, authVars, swrVars>>

\* ------------------------------------------------- pendingEvents.ts, swr
\* LIKED_TRACKS_TTL.staleThreshold, the threshold the liked-tracks fetcher
\* hands to swr.
staleThreshold == 2 * 60 * 1000

\* A staleness test that calls every entry stale.
isStaleAlways(fetchedAt, threshold, t) == TRUE

\* A staleness test that waits for twice the threshold to pass.
isStaleLate(fetchedAt, threshold, t) == t - fetchedAt > 2 * threshold

\* A staleness test that includes the threshold itself.
isStaleAtThreshold(fetchedAt, threshold, t) == t - fetchedAt >= threshold

\* Date.now() - fetchedAt > staleThreshold, at time t.
isStale(fetchedAt, threshold, t) == t - fetchedAt > threshold

\* What getCached answers with: null, or {data, fetchedAt}.
NoEntry == [present |-> FALSE, data |-> "none", fetchedAt |-> 0]
Entry(data, fetchedAt) == [present |-> TRUE, data |-> data, fetchedAt |-> fetchedAt]

\* What fetchFresh can resolve with.
FreshValues == {"d1", "d2"}
SwrCallIds == 1..MaxSwrCalls
SwrTickSteps == {staleThreshold, 2 * staleThreshold}

SWRResult(data, fromCache, isRevalidating) ==
  [data |-> data, fromCache |-> fromCache, isRevalidating |-> isRevalidating]
NoResult == SWRResult("none", FALSE, FALSE)

\* A swr call and the revalidateInBackground call it may start.  cached,
\* age: what getCached answered and how old it was then; fetchCalls, setCalls: calls of
\* fetchFresh and setCache made for this swr call; bg: position of the
\* background call; updates: the values onUpdate was invoked with; errors:
\* invocations of onError.
IdleSwr ==
  [pc |-> "idle", onUpdate |-> FALSE, onError |-> FALSE, cached |-> NoEntry,
   age |-> 0, fresh |-> "none", fetchedAt |-> 0, outcome |-> "none",
   result |-> NoResult, fetchCalls |-> 0, setCalls |-> 0, bg |-> "none",
   bgData |-> "none", bgFetchedAt |-> 0, bgWritten |-> "none",
   updates |-> <<>>, errors |-> 0]

FreeSwr(c) ==
  /\ swrCalls[c].pc = "idle"
  /\ \A d \in SwrCallIds : d < c => swrCalls[d].pc # "idle"

\* swr(options) is called and awaits getCached().
SwrStart(c, onUpdate, onError) ==
  /\ FreeSwr(c)
  /\ swrCalls' = [swrCalls EXCEPT ![c] =
       [IdleSwr EXCEPT !.pc = "reading", !.onUpdate = onUpdate,
                       !.onError = onError]]
  /\ UNCHANGED <<fetchVars, clockVars, queueVars, relayStore, currentSigner, cacheVars,
                 callVars, preload, authVars, member, cacheEntry>>

\* The cached branch of swr for the entry getCached answered with at time t:
\* a stale entry starts revalidateInBackground, which calls fetchFresh before
\* its first await, then the entry is returned; a fresh entry is returned.
CachedHit(call, entry, t) ==
  IF isStale(entry.fetchedAt, staleThreshold, t)
    THEN [call EXCEPT !.pc = "done", !.cached = entry, !.age = t - entry.fetchedAt,
            !.outcome = "returned", !.result = SWRResult(entry.data, TRUE, TRUE),
            !.fetchCalls = @ + 1, !.bg = "fetching"]
    ELSE [call EXCEPT !.pc = "done", !.cached = entry, !.age = t - entry.fetchedAt,
            !.outcome = "returned", !.result = SWRResult(entry.data, TRUE, FALSE)]

\* A miss branch that also starts a background revalidation.
CachedMissRevalidates(call, t) ==
  [call EXCEPT !.pc = "fetching", !.cached = NoEntry,
               !.fetchCalls = @ + 2, !.bg = "fetching"]

\* The miss branch up to its await: fetchFresh is called.
CachedMiss(call, t) ==
  [call EXCEPT !.pc = "fetching", !.cached = NoEntry,
               !.fetchCalls = @ + 1]

\* getCached() resolves.
SwrCached(c) ==
  /\ swrCalls[c].pc = "reading"
  /\ swrCalls' = [swrCalls EXCEPT ![c] =
       IF cacheEntry.present THEN CachedHit(@, cacheEntry, now)
       ELSE CachedMiss(@, now)]
  /\ UNCHANGED <<fetchVars, clockVars, queueVars, relayStore, currentSigner, cacheVars,
                 callVars, preload, authVars, member, cacheEntry>>

\* getCached() rejects: swr rejects.
SwrReadFailed(c) ==
  /\ swrCalls[c].pc = "reading"
  /\ swrCalls' = [swrCalls EXCEPT ![c].pc = "done", ![c].outcome = "threw"]
  /\ UNCHANGED <<fetchVars, clockVars, queueVars, relayStore, currentSigner, cacheVars,
                 callVars, preload, authVars, member, cacheEntry>>

\* Miss: fetchFresh resolves with v; fetchedAt = now(); setCache is called.
SwrFetched(c, v) ==
  /\ swrCalls[c].pc = "fetching"
  /\ swrCalls' = [swrCalls EXCEPT ![c].pc = "writing", ![c].fresh = v,
                    ![c].fetchedAt = now, ![c].setCalls = @ + 1]
  /\ UNCHANGED <<fetchVars, clockVars, queueVars, relayStore, currentSigner, cacheVars,
                 callVars, preload, authVars, member, cacheEntry>>

\* Miss: fetchFresh rejects; swr rejects.
SwrFetchFailed(c) ==
  /\ swrCalls[c].pc = "fetching"
  /\ swrCalls' = [swrCalls EXCEPT ![c].pc = "done", ![c].outcome = "threw"]
  /\ UNCHANGED <<fetchVars, clockVars, queueVars, relayStore, currentSigner, cacheVars,
                 callVars, preload, authVars, member, cacheEntry>>

\* Miss: setCache resolves; swr returns the fresh data.
SwrWritten(c) ==
  /\ swrCalls[c].pc = "writing"
  /\ cacheEntry' = Entry(swrCalls[c].fresh, swrCalls[c].fetchedAt)
  /\ swrCalls' = [swrCalls EXCEPT ![c].pc = "done", ![c].outcome = "returned",
                    ![c].result = SWRResult(swrCalls[c].fresh, FALSE, FALSE)]
  /\ UNCHANGED <<fetchVars, clockVars, queueVars, relayStore, currentSigner, cacheVars,
                 callVars, preload, authVars, member>>

\* Miss: setCache rejects; swr rejects.
SwrWriteFailed(c) ==
  /\ swrCalls[c].pc = "writing"
  /\ swrCalls' = [swrCalls EXCEPT ![c].pc = "done", ![c].outcome = "threw"]
  /\ UNCHANGED <<fetchVars, clockVars, queueVars, relayStore, currentSigner, cacheVars,
                 callVars, preload, authVars, member, cacheEntry>>

\* A revalidation that notifies as soon as the data is there, before the
\* cache write.
RevalGotNotifyEarly(call, v, t) ==
  [call EXCEPT !.bg = "writing", !.bgData = v, !.bgFetchedAt = t,
               !.setCalls = @ + 1,
               !.updates = IF call.onUpdate THEN Append(@, v) ELSE @]

\* revalidateInBackground after fetchFresh resolved with v at time t:
\* fetchedAt = now(), setCache is called and awaited.
RevalGot(call, v, t) ==
  [call EXCEPT !.bg = "writing", !.bgData = v, !.bgFetchedAt = t,
               !.setCalls = @ + 1]

\* revalidateInBackground after its setCache resolved: onUpdate(freshData).
RevalNotify(call) ==
  [call EXCEPT !.bg = "done", !.bgWritten = call.bgData,
     !.updates = IF call.onUpdate THEN Append(@, call.bgData) ELSE @]

\* A catch block that swallows the error without the callback.
RevalFailedSilent(call) == [call EXCEPT !.bg = "failed"]

\* A catch block whose error reaches the caller of swr.
RevalFailedRaised(call) ==
  [call EXCEPT !.bg = "failed", !.outcome = "threw",
               !.errors = IF call.onError THEN @ + 1 ELSE @]

\* The catch block of revalidateInBackground: onError(error).
RevalFailed(call) ==
  [call EXCEPT !.bg = "failed",
               !.errors = IF call.onError THEN @ + 1 ELSE @]

\* Background: fetchFresh resolves.
RevalFetched(c, v) ==
  /\ swrCalls[c].bg = "fetching"
  /\ swrCalls' = [swrCalls EXCEPT ![c] = RevalGot(@, v, now)]
  /\ UNCHANGED <<fetchVars, clockVars, queueVars, relayStore, currentSigner, cacheVars,
                 callVars, preload, authVars, member, cacheEntry>>

\* Background: fetchFresh rejects.
RevalFetchFailed(c) ==
  /\ swrCalls[c].bg = "fetching"
  /\ swrCalls' = [swrCalls EXCEPT ![c] = RevalFailed(@)]
  /\ UNCHANGED <<fetchVars, clockVars, queueVars, relayStore, currentSigner, cacheVars,
                 callVars, preload, authVars, member, cacheEntry>>

\* Background: setCache resolves, the cache holds the fresh value.
RevalWritten(c) ==
  /\ swrCalls[c].bg = "writing"
  /\ cacheEntry' = Entry(swrCalls[c].bgData, swrCalls[c].bgFetchedAt)
  /\ swrCalls' = [swrCalls EXCEPT ![c] = RevalNotify(@)]
  /\ UNCHANGED <<fetchVars, clockVars, queueVars, relayStore, currentSigner, cacheVars,
                 callVars, preload, authVars, member>>

\* Background: setCache rejects.
RevalWriteFailed(c) ==
  /\ swrCalls[c].bg = "writing"
  /\ swrCalls' = [swrCalls EXCEPT ![c] = RevalFailed(@)]
  /\ UNCHANGED <<fetchVars, clockVars, queueVars, relayStore, currentSigner, cacheVars,
                 callVars, preload, authVars, member, cacheEntry>>

\* ------------------------------------------- cache/fetchers.ts over swr
\* What the network fetch of the catch branch resolves with.
FallbackValues == {"d3"}

\* The catch branch of a cached fetcher: not entered, or settled.  fetchOk,
\* fetched: how the network fetch of the branch settled.
IdleFetcher ==
  [pc |-> "idle", outcome |-> "none", data |-> "none", fetchOk |-> FALSE,
   fetched |-> "none"]

\* A fetcher without the try / catch around swr.
CaughtRethrown(f, ok, v) == [f EXCEPT !.pc = "done", !.outcome = "threw"]

\* catch (error) { return fetchX(...) }: the call settles as the network
\* fetch does.
Caught(f, ok, v) ==
  IF ok THEN [f EXCEPT !.pc = "done", !.outcome = "returned", !.data = v]
  ELSE [f EXCEPT !.pc = "done", !.outcome = "threw"]

\* swr rejected inside fetchXCached; the network fetch of the catch branch
\* settles.
FetcherCaught(c, ok, v) ==
  /\ swrCalls[c].pc = "done" /\ swrCalls[c].outcome = "threw"
  /\ fetcher[c].pc = "idle"
  /\ fetcher' = [fetcher EXCEPT ![c] =
       [Caught(@, ok, v) EXCEPT !.fetchOk = ok,
                                !.fetched = IF ok THEN v ELSE "none"]]
  /\ UNCHANGED <<otherVars, authVars, member, swrVars, gossip, savedNip65, trackStore,
                 trackFetch, parseCall, clockVars, queueVars, relayStore, currentSigner,
                 cacheVars, callVars, preload>>

\* What fetchXCached settles with: result.data when swr returned, else what
\* the catch branch gives.
FetcherResult(c) ==
  IF swrCalls[c].pc = "done" /\ swrCalls[c].outcome = "returned"
    THEN [outcome |-> "returned", data |-> swrCalls[c].result.data]
    ELSE [outcome |-> fetcher[c].outcome, data |-> fetcher[c].data]

\* fetchPlaylistWithTracksCached.  The data of the model's cache entry and of
\* fetchFresh name a playlist; every playlist has one track reference, which
\* fetchTracksByRefs resolves to one track.
PlaylistOf(v) == [d |-> v, trackRefs |-> <<"t1">>]
WithTracks(v) == [playlist |-> PlaylistOf(v), tracks |-> <<"t1">>]

\* getCached() of the playlist fetcher: the cached playlist with tracks: [].
PlaylistFromCache(v) == [playlist |-> PlaylistOf(v), tracks |-> <<>>]

\* What fetchPlaylistWithTracksCached resolved with, for a swr call that
\* returned: the answer of getCached on a hit, that of fetchFresh on a miss.
PlaylistResult(c) ==
  IF swrCalls[c].result.fromCache
    THEN PlaylistFromCache(swrCalls[c].result.data)
    ELSE WithTracks(swrCalls[c].result.data)

\* The liked-tracks fetcher.  LIKED_TRACKS_TTL.freshDuration, in ms.
freshDuration == 5 * 60 * 1000
LikedTickSteps == {freshDuration - 1, freshDuration}

\* The query record setCache writes for an entry: expires_at is fetchedAt +
\* freshDuration.
QueryRecord(entry) ==
  [result_ids |-> entry.data, fetched_at |-> entry.fetchedAt,
   expires_at |-> entry.fetchedAt + freshDuration]

\* An expiry test that still serves a record at the instant it expires.
UnexpiredAtExpiry(query, t) == query.expires_at >= t

\* query.expires_at > Date.now(), at time t.
Unexpired(query, t) == query.expires_at > t

\* getCached() of fetchLikedTracksCached and the body of
\* peekCachedLikedTracks at time t: the entry when its query record has not
\* expired and at least half of its tracks are found in the track cache
\* (found), else null.
LikedFromCache(entry, found, t) ==
  IF entry.present /\ Unexpired(QueryRecord(entry), t) /\ found
    THEN entry ELSE NoEntry

\* getCached() of fetchLikedTracksCached resolves.
LikedCached(c, found) ==
  /\ swrCalls[c].pc = "reading"
  /\ LET answer == LikedFromCache(cacheEntry, found, now)
     IN swrCalls' = [swrCalls EXCEPT ![c] =
          IF answer.present THEN CachedHit(@, answer, now)
          ELSE CachedMiss(@, now)]
  /\ UNCHANGED <<fetchVars, clockVars, queueVars, relayStore, currentSigner, cacheVars,
                 callVars, preload, authVars, member, cacheEntry>>

\* peekCachedLikedTracks: record and at are what it read and when.
IdlePeek == [pc |-> "idle", served |-> FALSE, data |-> "none", record |-> NoEntry, at |-> 0]

\* peekCachedLikedTracks(userPubkey) settles: the tracks, or null.
PeekLiked(found) ==
  /\ peek.pc = "idle"
  /\ LET answer == LikedFromCache(cacheEntry, found, now)
     IN peek' = [pc |-> "done", served |-> answer.present, data |-> answer.data,
                 record |-> cacheEntry, at |-> now]
  /\ UNCHANGED <<authVars, member, swrVars, gossip, savedNip65, trackStore,
                 trackFetch, fetcher, parseCall, rival, client,
                 clockVars, queueVars,
                 relayStore, currentSigner, cacheVars, callVars, preload>>

\* The caller has taken the answer of peekCachedLikedTracks.
PeekReturn ==
  /\ peek.pc = "done"
  /\ peek' = IdlePeek
  /\ UNCHANGED <<authVars, member, swrVars, gossip, savedNip65, trackStore,
                 trackFetch, fetcher, parseCall, rival, client,
                 clockVars, queueVars,
                 relayStore, currentSigner, cacheVars, callVars, preload>>

\* ------------------------------------------------- pool (client.ts 27-98)
\* Upper bound on the length of a relay list given to initPool / setRelays.
MaxRelayList == 2

\* The built-in list (four relay urls in the source, one here).
DEFAULT_RELAYS == <<"d1">>

RelayUrls == {"r1", "d1"}
RelayLists == UNION {[1..n -> RelayUrls] : n \in 0..MaxRelayList}

\* Module state at load: pool = null, connectedRelays = [].  queried holds
\* the list the last querySync was sent to and configured the list last given
\* to setRelays or initPool by the caller (<<>> when there was none, <<list>>
\* otherwise); closed tells that closePool was called since (all history).
NoPool ==
  [pool |-> FALSE, connectedRelays |-> <<>>, queried |-> <<>>,
   configured |-> <<>>, closed |-> FALSE]

\* initPool(relays = DEFAULT_RELAYS): creates the pool if there is none and
\* stores relays.
initPool(c, relays) == [c EXCEPT !.pool = TRUE, !.connectedRelays = relays]

\* getPool(): initPool() with its default argument when there is no pool.
getPool(c) == IF c.pool THEN c ELSE initPool(c, DEFAULT_RELAYS)

getRelays(c) == c.connectedRelays

PoolFrame ==
  UNCHANGED <<authVars, member, swrVars, gossip, savedNip65, trackStore,
              trackFetch, fetcher, parseCall, rival, peek, clockVars, queueVars,
              relayStore, currentSigner, cacheVars, callVars, preload>>

\* initPool(relays) called with a list.
InitPool(relays) ==
  /\ client' = [initPool(client, relays) EXCEPT !.configured = <<relays>>,
                                                !.closed = FALSE]
  /\ PoolFrame

\* setRelays(relays)
SetRelays(relays) ==
  /\ client' = [client EXCEPT !.connectedRelays = relays,
                              !.configured = <<relays>>, !.closed = FALSE]
  /\ PoolFrame

\* closePool(): closes and forgets the pool; connectedRelays is left alone.
ClosePool ==
  /\ client' = [client EXCEPT !.pool = FALSE, !.closed = TRUE]
  /\ PoolFrame

\* getPool() called on its own.
GetPool ==
  /\ client' = getPool(client)
  /\ PoolFrame

\* A fetch function: const p = getPool(); p.querySync(connectedRelays, ...).
QuerySent ==
  /\ LET c == getPool(client)
     IN client' = [c EXCEPT !.queried = <<getRelays(c)>>]
  /\ PoolFrame

\* ----------------------------------------------- gossip (client.ts 756-879)
\* Upper bound on the number of tags of a relay list event.
MaxTags == 3

\* connectedRelays as the array initPool / setRelays stored.
BootstrapList == <<"r1", "r2">>

\* Tags of a kind 10002 event: ["r", url], ["r", url, "write"], ["r", url,
\* "read"], and two tags the parser skips.
RelayTags ==
  { <<"r", "r1">>, <<"r", "r1", "write">>, <<"r", "x">>, <<"r", "x", "write">>,
    <<"r", "y", "read">>, <<"r", "">>, <<"d", "x">> }
TagLists == UNION {[1..n -> RelayTags] : n \in 0..MaxTags}

\* const marker = tag[2]: undefined when the tag has two elements.
Marker(tag) == IF Len(tag) >= 3 THEN tag[3] ELSE None

\* The loop of fetchNip65Relays over events[0].tags.
RECURSIVE Nip65OfTags(_)
Nip65OfTags(tags) ==
  IF tags = <<>> THEN <<>>
  ELSE LET tag == Head(tags)
           marker == Marker(tag)
           rest == Nip65OfTags(Tail(tags))
       IN IF tag[1] = "r" /\ tag[2] # ""
            THEN <<[url |-> tag[2],
                    read |-> (marker = None \/ marker = "read"),
                    write |-> (marker = None \/ marker = "write")]>> \o rest
            ELSE rest

\* fetchNip65Relays: [] when the query returns no event.
fetchNip65Relays(found, tags) == IF found THEN Nip65OfTags(tags) ELSE <<>>

\* [...new Set(xs)]: first occurrences, in order.
RECURSIVE Deduplicated(_)
Deduplicated(xs) ==
  IF xs = <<>> THEN <<>>
  ELSE LET front == Deduplicated(SubSeq(xs, 1, Len(xs) - 1))
           last == xs[Len(xs)]
       IN IF \E i \in 1..Len(front) : front[i] = last
            THEN front
            ELSE Append(front, last)

\* A selection that takes every declared relay, read-only ones too.
WriteRelayUrlsAny(nip65) == [i \in 1..Len(nip65) |-> nip65[i].url]

\* nip65Relays.filter(r => r.write).map(r => r.url)
WriteRelayUrls(nip65) ==
  LET kept == SelectSeq(nip65, LAMBDA r : r.write)
  IN [i \in 1..Len(kept) |-> kept[i].url]

\* [...new Set([...connectedRelays, ...writeRelays])]
AllRelays(nip65) == Deduplicated(BootstrapList \o WriteRelayUrls(nip65))

\* A fetchArtistWithGossip call: the querySync calls it has made, in order,
\* each with its filter kind and relay array; the relay list event the first
\* query returned (found, tags); the state of the two parallel fetches.
IdleGossip ==
  [pc |-> "idle", author |-> None, queries |-> <<>>, found |-> FALSE,
   tags |-> <<>>, profile |-> "none", tracks |-> "none", result |-> "none"]

\* fetchArtistWithGossip(pubkey) up to the await of fetchNip65Relays.
GossipStart(author) ==
  /\ gossip.pc \in {"idle", "done"}
  /\ gossip' = [IdleGossip EXCEPT
                  !.pc = "nip65", !.author = author,
                  !.queries = <<[kind |-> "relay-list", relays |-> BootstrapList]>>]
  /\ UNCHANGED <<otherVars, authVars, member, swrVars, savedNip65, trackStore, trackFetch, fetcher, parseCall,
                 clockVars, queueVars, relayStore, currentSigner, cacheVars,
                 callVars, preload>>

\* The relay list query resolves; both fetches of step 2 are started.
GossipNip65(found, tags) ==
  /\ gossip.pc = "nip65"
  /\ LET allRelays == AllRelays(fetchNip65Relays(found, tags))
     IN gossip' = [gossip EXCEPT
                     !.pc = "fetching", !.found = found,
                     !.tags = IF found THEN tags ELSE <<>>,
                     !.queries = @ \o <<[kind |-> "profile", relays |-> allRelays],
                                        [kind |-> "tracks", relays |-> allRelays]>>,
                     !.profile = "pending", !.tracks = "pending"]
  /\ UNCHANGED <<otherVars, authVars, member, swrVars, savedNip65, trackStore, trackFetch, fetcher, parseCall,
                 clockVars, queueVars, relayStore, currentSigner, cacheVars,
                 callVars, preload>>

\* The relay list query rejects: fetchArtistWithGossip rejects.
GossipNip65Failed ==
  /\ gossip.pc = "nip65"
  /\ gossip' = [gossip EXCEPT !.pc = "done", !.result = "threw"]
  /\ UNCHANGED <<otherVars, authVars, member, swrVars, savedNip65, trackStore, trackFetch, fetcher, parseCall,
                 clockVars, queueVars, relayStore, currentSigner, cacheVars,
                 callVars, preload>>

\* Promise.all over the two fetches: rejected by the first rejection,
\* fulfilled by the second fulfilment.
GossipSettled(g) ==
  LET failed == g.profile = "failed" \/ g.tracks = "failed"
      both == g.profile = "ok" /\ g.tracks = "ok"
  IN [g EXCEPT !.pc = IF g.profile # "pending" /\ g.tracks # "pending"
                        THEN "done" ELSE "fetching",
               !.result = IF g.result # "none" THEN g.result
                          ELSE IF failed THEN "threw"
                          ELSE IF both THEN "returned" ELSE "none"]

\* fetchProfileFromRelays settles.
GossipProfile(ok) ==
  /\ gossip.pc = "fetching" /\ gossip.profile = "pending"
  /\ gossip' = GossipSettled([gossip EXCEPT !.profile = IF ok THEN "ok" ELSE "failed"])
  /\ UNCHANGED <<otherVars, authVars, member, swrVars, savedNip65, trackStore, trackFetch, fetcher, parseCall,
                 clockVars, queueVars, relayStore, currentSigner, cacheVars,
                 callVars, preload>>

\* fetchTracksFromRelays settles.
GossipTracks(ok) ==
  /\ gossip.pc = "fetching" /\ gossip.tracks = "pending"
  /\ gossip' = GossipSettled([gossip EXCEPT !.tracks = IF ok THEN "ok" ELSE "failed"])
  /\ UNCHANGED <<otherVars, authVars, member, swrVars, savedNip65, trackStore, trackFetch, fetcher, parseCall,
                 clockVars, queueVars, relayStore, currentSigner, cacheVars,
                 callVars, preload>>

\* --------------------------------------------- types.ts: parsing of tracks
MUSIC_TRACK_KIND == 36787
PLAYLIST_KIND == 34139

\* The value of an absent tag, of a tag without value, of a missing element.
Undefined == "undefined"

\* An event as the pool hands it over: tags are arrays [key, value, ...].
Event(id, kind, pubkey, created_at, tags) ==
  [id |-> id, kind |-> kind, pubkey |-> pubkey, created_at |-> created_at,
   tags |-> tags]

\* tags.get(key)?.[0]: the first value of the first tag named key.
RECURSIVE FirstValue(_, _)
FirstValue(tags, key) ==
  IF tags = <<>> THEN Undefined
  ELSE LET tag == Head(tags)
       IN IF tag # <<>> /\ tag[1] = key
            THEN IF Len(tag) >= 2 THEN tag[2] ELSE Undefined
            ELSE FirstValue(Tail(tags), key)

\* !v for a string or undefined.
Falsy(v) == v = Undefined \/ v = ""

\* What parseMusicTrackEvent returns for null.
NullTrack ==
  [id |-> None, pubkey |-> None, createdAt |-> 0, d |-> None, title |-> None,
   artist |-> None, url |-> None]

\* A parser that asks for a 'd' tag only.
parseMusicTrackEventLax(event) ==
  IF event.kind # MUSIC_TRACK_KIND \/ Falsy(FirstValue(event.tags, "d"))
    THEN NullTrack
    ELSE [id |-> event.id, pubkey |-> event.pubkey, createdAt |-> event.created_at,
          d |-> FirstValue(event.tags, "d"),
          title |-> FirstValue(event.tags, "title"),
          artist |-> FirstValue(event.tags, "artist"),
          url |-> FirstValue(event.tags, "url")]

\* parseMusicTrackEvent(event), with the required fields of the result.
parseMusicTrackEvent(event) ==
  IF event.kind # MUSIC_TRACK_KIND THEN NullTrack
  ELSE LET d == FirstValue(event.tags, "d")
           title == FirstValue(event.tags, "title")
           artist == FirstValue(event.tags, "artist")
           url == FirstValue(event.tags, "url")
       IN IF Falsy(d) \/ Falsy(title) \/ Falsy(artist) \/ Falsy(url)
            THEN NullTrack
            ELSE [id |-> event.id, pubkey |-> event.pubkey,
                  createdAt |-> event.created_at, d |-> d, title |-> title,
                  artist |-> artist, url |-> url]

\* events.map(parseMusicTrackEvent).filter(t => t !== null)
RECURSIVE ParsedTracks(_)
ParsedTracks(events) ==
  IF events = <<>> THEN <<>>
  ELSE LET t == parseMusicTrackEvent(Head(events))
       IN IF t = NullTrack THEN ParsedTracks(Tail(events))
          ELSE <<t>> \o ParsedTracks(Tail(events))

\* ------------------------------------------ types.ts: track references
\* Upper bound on the length of a d tag, in characters.
MaxLen == 3

\* Strings that are taken apart are sequences of characters.
KindString == <<"3", "6", "7", "8", "7">>
Colon == ":"
PubkeyStrings == {<<"a">>, <<"a", "b">>}
DTagChars == {"s", Colon}
DTagStrings == UNION {[1..n -> DTagChars] : n \in 0..MaxLen}

\* `${MUSIC_TRACK_KIND}:${pubkey}:${dTag}`
createTrackReference(pubkey, dTag) ==
  KindString \o <<Colon>> \o pubkey \o <<Colon>> \o dTag

\* ref.split(':')
RECURSIVE Split(_)
Split(str) ==
  IF \A i \in 1..Len(str) : str[i] # Colon THEN <<str>>
  ELSE LET i == CHOOSE k \in 1..Len(str) :
                  str[k] = Colon /\ \A j \in 1..(k - 1) : str[j] # Colon
       IN <<SubSeq(str, 1, i - 1)>> \o Split(SubSeq(str, i + 1, Len(str)))

\* parseInt(str, 10) on strings without sign or blank: the number its
\* leading digits spell, NaN when it does not start with a digit.
NaN == -1
Digits == <<"0", "1", "2", "3", "4", "5", "6", "7", "8", "9">>
IsDigit(ch) == \E d \in 1..10 : Digits[d] = ch
DigitValue(ch) == (CHOOSE d \in 1..10 : Digits[d] = ch) - 1
RECURSIVE LeadingNumber(_, _)
LeadingNumber(str, acc) ==
  IF str = <<>> \/ ~IsDigit(Head(str)) THEN acc
  ELSE LeadingNumber(Tail(str), 10 * acc + DigitValue(Head(str)))
parseInt(str) ==
  IF str = <<>> \/ ~IsDigit(Head(str)) THEN NaN ELSE LeadingNumber(str, 0)

\* What parseTrackReference returns for null.
NullRef == [kind |-> 0, pubkey |-> <<"null">>, dTag |-> <<"null">>]

\* parseTrackReference(ref)
parseTrackReference(ref) ==
  LET parts == Split(ref)
  IN IF Len(parts) # 3 THEN NullRef
     ELSE LET kind == parseInt(parts[1])
          IN IF kind # MUSIC_TRACK_KIND THEN NullRef
             ELSE [kind |-> kind, pubkey |-> parts[2], dTag |-> parts[3]]

IdleParse == [fn |-> "none"]

\* The caller has taken the result.
ParseReturn ==
  /\ parseCall # IdleParse
  /\ parseCall' = IdleParse
  /\ UNCHANGED <<otherVars, authVars, member, swrVars, gossip, savedNip65, trackStore,
                 trackFetch, fetcher, clockVars, queueVars, relayStore,
                 currentSigner, cacheVars, callVars, preload>>

\* parseTrackReference(createTrackReference(pubkey, dTag))
RoundTrip(pubkey, dTag) ==
  /\ parseCall = IdleParse
  /\ parseCall' = [fn |-> "roundTrip", pubkey |-> pubkey, dTag |-> dTag,
                   ref |-> createTrackReference(pubkey, dTag),
                   output |-> parseTrackReference(createTrackReference(pubkey, dTag))]
  /\ UNCHANGED <<otherVars, authVars, member, swrVars, gossip, savedNip65, trackStore,
                 trackFetch, fetcher, clockVars, queueVars, relayStore,
                 currentSigner, cacheVars, callVars, preload>>

\* ------------------------------------------ types.ts: calls of the parsers
\* What an event can carry for one required key: no tag, a tag without
\* value, an empty value, a value, and two tags in either order.
TagOptions(key) ==
  { <<>>, <<<<key>>>>, <<<<key, "">>>>, <<<<key, "v">>>>,
    <<<<key, "">>, <<key, "v">>>>, <<<<key, "v">>, <<key, "">>>> }

TrackEvents ==
  { Event("e1", kind, "B", 100, d \o title \o artist \o url) :
      kind \in {MUSIC_TRACK_KIND, PLAYLIST_KIND},
      d \in TagOptions("d"), title \in TagOptions("title"),
      artist \in TagOptions("artist"), url \in TagOptions("url") }

\* parseMusicTrackEvent(event)
ParseTrack(event) ==
  /\ parseCall = IdleParse
  /\ parseCall' = [fn |-> "parseMusicTrackEvent", event |-> event,
                   output |-> parseMusicTrackEvent(event)]
  /\ UNCHANGED <<otherVars, authVars, member, swrVars, gossip, savedNip65, trackStore,
                 trackFetch, fetcher, clockVars, queueVars, relayStore,
                 currentSigner, cacheVars, callVars, preload>>

\* tracks.sort((a, b) => b.createdAt - a.createdAt): stable, newest first.
RECURSIVE InsertByCreatedAt(_, _)
InsertByCreatedAt(track, sorted) ==
  IF sorted = <<>> THEN <<track>>
  ELSE IF Head(sorted).createdAt >= track.createdAt
    THEN <<Head(sorted)>> \o InsertByCreatedAt(track, Tail(sorted))
    ELSE <<track>> \o sorted
RECURSIVE SortByCreatedAt(_)
SortByCreatedAt(tracks) ==
  IF tracks = <<>> THEN <<>>
  ELSE InsertByCreatedAt(tracks[Len(tracks)],
                         SortByCreatedAt(SubSeq(tracks, 1, Len(tracks) - 1)))

\* The result of fetchRecentTracks once querySync has resolved with events.
fetchRecentTracks(events) == SortByCreatedAt(ParsedTracks(events))

FullTags ==
  <<<<"d", "song-1">>, <<"title", "T">>, <<"artist", "A">>, <<"url", "u">>>>
RecentEvents ==
  { Event("e1", MUSIC_TRACK_KIND, "B", 100, FullTags),
    Event("e2", MUSIC_TRACK_KIND, "B", 200, SubSeq(FullTags, 1, 3)),
    Event("e3", MUSIC_TRACK_KIND, "A", 300, FullTags),
    Event("e4", MUSIC_TRACK_KIND, "A", 300, <<<<"d", "">>>> \o Tail(FullTags)) }
RecentAnswers ==
  {events \in UNION {[1..n -> RecentEvents] : n \in 0..3} :
     \A i, j \in 1..Len(events) : i # j => events[i] # events[j]}

\* fetchRecentTracks(): the answer of the relays is parsed, filtered, sorted.
FetchRecent(events) ==
  /\ parseCall = IdleParse
  /\ parseCall' = [fn |-> "fetchRecentTracks", events |-> events,
                   output |-> fetchRecentTracks(events)]
  /\ UNCHANGED <<otherVars, authVars, member, swrVars, gossip, savedNip65, trackStore,
                 trackFetch, fetcher, clockVars, queueVars, relayStore,
                 currentSigner, cacheVars, callVars, preload>>

\* ------------------------------------------------ types.ts: playlists
\* a[0] of an 'a' tag that has no value.
UndefinedPointer == <<"undefined">>

\* What parsePlaylistEvent returns for null.
NullPlaylist ==
  [id |-> None, pubkey |-> None, createdAt |-> 0, d |-> None, title |-> None,
   alt |-> None, trackRefs |-> <<>>]

Parsed(value) == [raised |-> FALSE, value |-> value]
Raised == [raised |-> TRUE, value |-> NullPlaylist]

\* (multiTags.get('a') || []).map(a => a[0])
RECURSIVE Pointers(_)
Pointers(tags) ==
  IF tags = <<>> THEN <<>>
  ELSE LET tag == Head(tags)
       IN IF tag # <<>> /\ tag[1] = "a"
            THEN <<IF Len(tag) >= 2 THEN tag[2] ELSE UndefinedPointer>>
                   \o Pointers(Tail(tags))
            ELSE Pointers(Tail(tags))

\* pointers.map(parseTrackReference).filter(ref => ref !== null)
RECURSIVE TrackRefs(_)
TrackRefs(pointers) ==
  IF pointers = <<>> THEN <<>>
  ELSE LET ref == parseTrackReference(Head(pointers))
       IN IF ref = NullRef THEN TrackRefs(Tail(pointers))
          ELSE <<ref>> \o TrackRefs(Tail(pointers))

\* parsePlaylistEvent(event); undefined.split(':') raises a TypeError.
parsePlaylistEvent(event) ==
  IF event.kind # PLAYLIST_KIND THEN Parsed(NullPlaylist)
  ELSE LET d == FirstValue(event.tags, "d")
           title == FirstValue(event.tags, "title")
           alt == FirstValue(event.tags, "alt")
           pointers == Pointers(event.tags)
       IN IF Falsy(d) \/ Falsy(title) \/ Falsy(alt) THEN Parsed(NullPlaylist)
          ELSE IF \E i \in 1..Len(pointers) : pointers[i] = UndefinedPointer
            THEN Raised
            ELSE Parsed([id |-> event.id, pubkey |-> event.pubkey,
                         createdAt |-> event.created_at, d |-> d,
                         title |-> title, alt |-> alt,
                         trackRefs |-> TrackRefs(pointers)])

\* 'a' tags: two track pointers, a pointer of two parts, one of four parts,
\* a playlist pointer, a kind with a trailing character, a tag without value.
PointerTags ==
  { <<"a", createTrackReference(<<"a">>, <<"s">>)>>,
    <<"a", createTrackReference(<<"a", "b">>, <<"s">>)>>,
    <<"a", KindString \o <<Colon, "a">>>>,
    <<"a", createTrackReference(<<"a">>, <<"s", Colon, "s">>)>>,
    <<"a", <<"3", "4", "1", "3", "9", Colon, "a", Colon, "s">>>>,
    <<"a", KindString \o <<"x", Colon, "a", Colon, "s">>>>,
    <<"a">> }
PlaylistTags == <<<<"d", "list-1">>, <<"title", "T">>, <<"alt", "Playlist: T">>>>
PlaylistEvents ==
  { Event("p1", kind, "B", 100, required \o pointers) :
      kind \in {PLAYLIST_KIND, MUSIC_TRACK_KIND},
      required \in {PlaylistTags, SubSeq(PlaylistTags, 1, 2)},
      pointers \in UNION {[1..n -> PointerTags] : n \in 0..MaxTags} }

\* parsePlaylistEvent(event)
ParsePlaylist(event) ==
  /\ parseCall = IdleParse
  /\ parseCall' = [fn |-> "parsePlaylistEvent", event |-> event,
                   output |-> parsePlaylistEvent(event)]
  /\ UNCHANGED <<otherVars, authVars, member, swrVars, gossip, savedNip65, trackStore,
                 trackFetch, fetcher, clockVars, queueVars, relayStore,
                 currentSigner, cacheVars, callVars, preload>>

\* ------------------------------------- client.ts: identifier-keyed queries
\* A track event with all required tags.
TrackVersion(id, d, created_at) ==
  Event(id, MUSIC_TRACK_KIND, "B", created_at,
        <<<<"d", d>>, <<"title", "T">>, <<"artist", "Ar">>, <<"url", "u">>>>)

\* Two versions of (B, song-1) and one of (B, song-2).
Song1At100 == TrackVersion("e100", "song-1", 100)
Song1At200 == TrackVersion("e200", "song-1", 200)
Song2At150 == TrackVersion("e150", "song-2", 150)

\* What one relay can hold: for each address at most one version.
RelayHoldings ==
  {a \cup b : a \in {{}, {Song1At100}, {Song1At200}}, b \in {{}, {Song2At150}}}

\* The filter {kinds: [MUSIC_TRACK_KIND], authors: [pubkey], '#d': dTags}.
Matches(ev, pubkey, dTags) ==
  ev.kind = MUSIC_TRACK_KIND /\ ev.pubkey = pubkey
    /\ FirstValue(ev.tags, "d") \in dTags

\* The arrays p.querySync(connectedRelays, filter) can resolve with: what the
\* connected relays hold that matches, each event once, in the order the
\* relays delivered them.
QueryResults(store, pubkey, dTags) ==
  LET found == {ev \in UNION {store[r] : r \in connectedRelays} :
                  Matches(ev, pubkey, dTags)}
  IN {f \in [1..Cardinality(found) -> found] :
        \A i, j \in 1..Cardinality(found) : f[i] = f[j] => i = j}

\* events[0]
First(events) == events[1]

\* fetchTrack / the per-track lookup of fetchLikedTracks after the query:
\* null for no event, else parseMusicTrackEvent(events[0]).
fetchTrack(events) ==
  IF events = <<>> THEN NullTrack ELSE parseMusicTrackEvent(First(events))

\* trackMap.get(key) after trackMap.set(key, track) for every track of the
\* array in order: the last track of that address.
RECURSIVE MapGet(_, _)
MapGet(tracks, key) ==
  IF tracks = <<>> THEN NullTrack
  ELSE LET last == tracks[Len(tracks)]
       IN IF <<last.pubkey, last.d>> = key THEN last
          ELSE MapGet(SubSeq(tracks, 1, Len(tracks) - 1), key)

\* fetchTracksByRefs(refs) after its query: the tracks of the refs, in the
\* order of the refs, refs without a track left out.
RECURSIVE fetchTracksByRefs(_, _)
fetchTracksByRefs(refs, events) ==
  IF refs = <<>> THEN <<>>
  ELSE LET t == MapGet(ParsedTracks(events), Head(refs))
           rest == fetchTracksByRefs(Tail(refs), events)
       IN IF t = NullTrack THEN rest ELSE <<t>> \o rest

\* The refs lists fetchTracksByRefs is called with (a playlist of B's songs).
RefLists ==
  { <<<<"B", "song-1">>>>, <<<<"B", "song-1">>, <<"B", "song-2">>>>,
    <<<<"B", "song-2">>, <<"B", "song-1">>>> }

IdleTrackFetch ==
  [pc |-> "idle", fn |-> "none", refs |-> <<>>, events |-> <<>>,
   result |-> <<>>]

\* fetchTrack(pubkey, dTag) or the lookup of fetchLikedTracks for one liked
\* ref, up to the await of querySync.
TrackQuery(fn, ref) ==
  /\ trackFetch.pc \in {"idle", "done"}
  /\ trackFetch' = [IdleTrackFetch EXCEPT !.pc = "querying", !.fn = fn,
                                          !.refs = <<ref>>]
  /\ UNCHANGED <<otherVars, authVars, member, swrVars, gossip, savedNip65, trackStore, fetcher, parseCall,
                 clockVars, queueVars, relayStore, currentSigner, cacheVars,
                 callVars, preload>>

\* fetchTracksByRefs(refs) up to the await of querySync (one author, so one
\* query).
RefsQuery(refs) ==
  /\ trackFetch.pc \in {"idle", "done"}
  /\ trackFetch' = [IdleTrackFetch EXCEPT !.pc = "querying",
                                          !.fn = "fetchTracksByRefs",
                                          !.refs = refs]
  /\ UNCHANGED <<otherVars, authVars, member, swrVars, gossip, savedNip65, trackStore, fetcher, parseCall,
                 clockVars, queueVars, relayStore, currentSigner, cacheVars,
                 callVars, preload>>

\* The '#d' values of the filter of the call in flight.
RequestedDTags == {trackFetch.refs[i][2] : i \in 1..Len(trackFetch.refs)}

\* The query resolves with `events`; the call returns.
TrackAnswer(events) ==
  /\ trackFetch.pc = "querying"
  /\ events \in QueryResults(trackStore, "B", RequestedDTags)
  /\ trackFetch' =
       [trackFetch EXCEPT
          !.pc = "done", !.events = events,
          !.result = IF trackFetch.fn = "fetchTracksByRefs"
                       THEN fetchTracksByRefs(trackFetch.refs, events)
                       ELSE LET t == fetchTrack(events)
                            IN IF t = NullTrack THEN <<>> ELSE <<t>>]
  /\ UNCHANGED <<otherVars, authVars, member, swrVars, gossip, savedNip65, trackStore, fetcher, parseCall,
                 clockVars, queueVars, relayStore, currentSigner, cacheVars,
                 callVars, preload>>

\* The query rejects; so does the call.
TrackQueryFailed ==
  /\ trackFetch.pc = "querying"
  /\ trackFetch' = [trackFetch EXCEPT !.pc = "done", !.fn = "threw"]
  /\ UNCHANGED <<otherVars, authVars, member, swrVars, gossip, savedNip65, trackStore, fetcher, parseCall,
                 clockVars, queueVars, relayStore, currentSigner, cacheVars,
                 callVars, preload>>

\* The wall clock advances.
Tick(d) ==
  /\ ticks < MaxTicks
  /\ now' = now + d
  /\ ticks' = ticks + 1
  /\ UNCHANGED <<sessionVars, queueVars, relayStore, currentSigner, cacheVars, callVars, preload>>

\* Events already on the relays, and items already queued by earlier
\* sessions (the queue is durable), when the session starts.
OldLike(u) == ReactionEvent(u, "t1", "+", 0)
OldDislike(u) == ReactionEvent(u, "t1", "-", 0)
InitRelayContents ==
  { {OldLike("B")}, {OldLike("A"), OldLike("B")}, {OldDislike("A"), OldLike("B")} }
StoredItem(rc) ==
  [event |-> OldLike("A"), targetRelays |-> Relays, createdAt |-> 0,
   retryCount |-> rc]
InitQueues == {<<>>} \cup {<<StoredItem(rc)>> : rc \in {0, MaxRetries - 1, MaxRetries}}

\* The reaction subsystem and the queue at the start of a session.
ReactionInit(queues, contents) ==
  /\ now = 0
  /\ ticks = 0
  /\ pendingStore \in queues
  /\ \E held \in contents : relayStore = [r \in Relays |-> held]
  /\ sweep = IdleSweep
  /\ sweeps = 0
  /\ likedTracksCache = NoCache
  /\ likedTracksCacheUserPubkey = None
  /\ like = IdleCall
  /\ unlike = IdleCall
  /\ preload = IdlePreload
  /\ calls = 0
  /\ member = IdleMember

\* auth.ts with `user` logged in (None: nobody) and `stored` in the vault.
SessionInit(user, stored) ==
  /\ currentSigner = user
  /\ currentUser = user
  /\ bunkerInstance = 0
  /\ openBunkers = {}
  /\ vault \in stored
  /\ authCalls = [c \in AuthCallIds |-> IdleAuthCall]
  /\ logoutCall = IdleLogout
  /\ logouts = 0

\* The swr cache with one of `entries` stored.
SwrInit(entries) ==
  /\ cacheEntry \in entries
  /\ swrCalls = [c \in SwrCallIds |-> IdleSwr]

\* No fetch in flight; the user's saved NIP-65 list is one of `saved`.
FetchInit(saved) ==
  /\ gossip = IdleGossip
  /\ savedNip65 \in saved
  /\ trackFetch = IdleTrackFetch
  /\ fetcher = [c \in SwrCallIds |-> IdleFetcher]
  /\ parseCall = IdleParse
  /\ rival = IdleSweep
  /\ client = NoPool
  /\ peek = IdlePeek

\* Each relay holds one of `holdings`.
TrackInit(holdings) == trackStore \in [Relays -> holdings]

\* The saved list of a user whose one relay, r1, is for reading and writing.
DefaultSaved == {<<[url |-> "r1", read |-> TRUE, write |-> TRUE]>>}

\* User A is logged in with an nsec.
InitWith(queues, contents) ==
  /\ ReactionInit(queues, contents)
  /\ FetchInit(DefaultSaved)
  /\ TrackInit({{}})
  /\ SessionInit("A", {[method |-> "nsec", data |-> "A"]})
  /\ SwrInit({NoEntry})

Init == InitWith({<<>>}, InitRelayContents)
QueueInit == InitWith(InitQueues, {{}})

\* A failed publish of some caller is captured: addPendingEvent(event, relays).
CaptureFailedPublish(event, targetRelays) ==
  /\ calls < MaxCalls
  /\ calls' = calls + 1
  /\ pendingStore' = addPendingEvent(pendingStore, event, targetRelays, now)
  /\ UNCHANGED <<sessionVars, clockVars, relayStore, sweep, sweeps, currentSigner, cacheVars,
                 like, unlike, preload>>

QueueEvents == {OldLike("A"), DeletionEvent("A", RefOf(OldLike("A")), 0)}

\* pendingEvents.ts under its callers.
QueueNext ==
  \/ RetryStart
  \/ \E acc \in SUBSET Relays : RetryPublished(acc)
  \/ \E i \in 1..2 : RemovePending(i)
  \/ \E d \in TickSteps : Tick(d)
  \/ \E ev \in QueueEvents, rs \in {{"r1"}, Relays} : CaptureFailedPublish(ev, rs)

\* The reaction subsystem of client.ts, with the queue it hands failures to.
\* The views call unlikeTrack and the membership functions with the pubkey of
\* the logged-in user (NostrFavoritesView.svelte, handleUnlike).
Next ==
  \/ Tick(MaxAgeMs)
  \/ \E t \in Tracks : LikeSign(t)
  \/ \E nip65 \in DistinctTargetLists : LikeLookup(nip65)
  \/ LikeLookupFailed
  \/ \E acc \in SUBSET Relays : LikePublished(acc)
  \/ \E t \in Tracks : UnlikeNotFound(currentSigner, t)
  \/ \E t \in Tracks : UnlikeQueryFailed(currentSigner, t)
  \/ \E t \in Tracks :
       \E id \in findUserReactionEventId(relayStore, currentSigner, t) :
         UnlikeSign(currentSigner, t, id)
  \/ \E nip65 \in DistinctTargetLists : UnlikeLookup(nip65)
  \/ UnlikeLookupFailed
  \/ \E acc \in SUBSET Relays : UnlikePublished(acc)
  \/ PreloadStart(currentSigner)
  \/ PreloadDone
  \/ PreloadFailed

Spec == Init /\ [][Next]_vars
QueueSpec == QueueInit /\ [][QueueNext]_vars

\* A queue of two events left by an earlier session.
TwoItems(rc) ==
  <<StoredItem(rc),
    [event |-> DeletionEvent("A", RefOf(OldLike("A")), 0), targetRelays |-> {"r1"},
     createdAt |-> 0, retryCount |-> 0]>>
OverlapQueues == InitQueues \cup {TwoItems(rc) : rc \in {0, MaxRetries - 1}}

\* Calls of retryPendingEvents one after the other, and one more call made
\* while one of them awaits a publish.
OverlapNext ==
  \/ RetryStart
  \/ \E acc \in SUBSET Relays : RetryPublished(acc)
  \/ RivalStart
  \/ \E acc \in SUBSET Relays : RivalPublished(acc)

OverlapSpec == InitWith(OverlapQueues, {{}}) /\ [][OverlapNext]_vars

\* The same calls, with failed publishes of other callers captured meanwhile.
CeilingNext ==
  \/ OverlapNext
  \/ \E ev \in QueueEvents : CaptureFailedPublish(ev, Relays)

CeilingSpec == InitWith(OverlapQueues, {{}}) /\ [][CeilingNext]_vars

\* The queue under a trigger that keeps starting sweeps, each of which runs to
\* completion: every publish it awaits settles.
LiveQueueNext ==
  \/ RetryTriggered
  \/ \E acc \in SUBSET Relays : RetryPublished(acc)
  \/ Tick(MaxAgeMs + 1)
  \/ \E ev \in QueueEvents : CaptureFailedPublish(ev, Relays)

LiveQueueSpec ==
  /\ QueueInit
  /\ [][LiveQueueNext]_vars
  /\ WF_vars(RetryTriggered)
  /\ WF_vars(\E acc \in SUBSET Relays : RetryPublished(acc))

\* The application starts: nobody is logged in, the vault holds what an
\* earlier run left: nothing, or a credential, valid or not.
AuthInit ==
  /\ ReactionInit({<<>>}, {{}})
  /\ FetchInit(DefaultSaved)
  /\ TrackInit({{}})
  /\ SessionInit(None, {NoSession} \cup Credentials)
  /\ SwrInit({NoEntry})

\* auth.ts under the login view and the store: restoreSession, the two
\* logins, logout.
AuthNext ==
  \/ \E c \in AuthCallIds : RestoreStart(c)
  \/ \E c \in AuthCallIds : RestoreLoaded(c)
  \/ \E c \in AuthCallIds, session \in Credentials : LoginStart(c, session)
  \/ \E c \in AuthCallIds : BunkerConnected(c)
  \/ \E c \in AuthCallIds : BunkerConnectFailed(c)
  \/ \E c \in AuthCallIds : LoginSet(c)
  \/ \E c \in AuthCallIds : LoginSaved(c)
  \/ \E c \in AuthCallIds : LoginSaveFailed(c)
  \/ \E c \in AuthCallIds, ok \in BOOLEAN : RestoreCleared(c, ok)
  \/ LogoutStart
  \/ \E ok \in BOOLEAN : LogoutCleared(ok)

AuthSpec == AuthInit /\ [][AuthNext]_vars

\* The membership functions of client.ts for any pubkey, and logout.
MemberNext ==
  \/ \E u \in Users, t \in Tracks : IsLikedHit(u, t)
  \/ \E u \in Users, t \in Tracks : IsLikedMiss(u, t)
  \/ IsLikedFetched
  \/ IsLikedFailed
  \/ IsLikedAnswer
  \/ \E u \in Users : PreloadStart(u)
  \/ PreloadDone
  \/ PreloadFailed
  \/ LogoutStart
  \/ \E ok \in BOOLEAN : LogoutCleared(ok)
  \/ \E t \in Tracks : LikeUnsigned(t)

MemberSpec == Init /\ [][MemberNext]_vars

\* swr over one cache key: the entry an earlier run left is absent or was
\* fetched at time 0.
SwrSpecInit ==
  /\ ReactionInit({<<>>}, {{}})
  /\ FetchInit(DefaultSaved)
  /\ TrackInit({{}})
  /\ SessionInit("A", {[method |-> "nsec", data |-> "A"]})
  /\ SwrInit({NoEntry, Entry("d0", 0)})

SwrNext ==
  \/ \E d \in SwrTickSteps : Tick(d)
  \/ \E c \in SwrCallIds, cb \in BOOLEAN : SwrStart(c, cb, cb)
  \/ \E c \in SwrCallIds : SwrCached(c)
  \/ \E c \in SwrCallIds : SwrReadFailed(c)
  \/ \E c \in SwrCallIds, v \in FreshValues : SwrFetched(c, v)
  \/ \E c \in SwrCallIds : SwrFetchFailed(c)
  \/ \E c \in SwrCallIds : SwrWritten(c)
  \/ \E c \in SwrCallIds : SwrWriteFailed(c)
  \/ \E c \in SwrCallIds, v \in FreshValues : RevalFetched(c, v)
  \/ \E c \in SwrCallIds : RevalFetchFailed(c)
  \/ \E c \in SwrCallIds : RevalWritten(c)
  \/ \E c \in SwrCallIds : RevalWriteFailed(c)

SwrSpec == SwrSpecInit /\ [][SwrNext]_vars

\* likeTrack and unlikeTrack of user A under every saved NIP-65 list and every
\* relay list of the artist; a publish is accepted by all targets or by none.
OutboxInit ==
  /\ ReactionInit({<<>>}, {{OldLike("A"), OldLike("B")}})
  /\ SessionInit("A", {[method |-> "nsec", data |-> "A"]})
  /\ SwrInit({NoEntry})
  /\ FetchInit(SavedNip65Lists)
  /\ TrackInit({{}})

OutboxNext ==
  \/ \E t \in Tracks : LikeSign(t)
  \/ \E nip65 \in ArtistRelayLists : LikeLookup(nip65)
  \/ LikeLookupFailed
  \/ \E acc \in {{}, like.targetRelays} : LikePublished(acc)
  \/ \E t \in Tracks :
       \E id \in findUserReactionEventId(relayStore, currentSigner, t) :
         UnlikeSign(currentSigner, t, id)
  \/ \E nip65 \in ArtistRelayLists : UnlikeLookup(nip65)
  \/ UnlikeLookupFailed
  \/ \E acc \in {{}, unlike.targetRelays} : UnlikePublished(acc)

OutboxSpec == OutboxInit /\ [][OutboxNext]_vars

\* The identifier-keyed track queries over every combination of versions the
\* two relays can hold.
TrackInitState ==
  /\ ReactionInit({<<>>}, {{OldLike("A")}})
  /\ SessionInit("A", {[method |-> "nsec", data |-> "A"]})
  /\ SwrInit({NoEntry})
  /\ FetchInit(DefaultSaved)
  /\ TrackInit(RelayHoldings)

TrackNext ==
  \/ \E fn \in {"fetchTrack", "fetchLikedTracks"}, d \in {"song-1", "song-2"} :
       TrackQuery(fn, <<"B", d>>)
  \/ \E refs \in RefLists : RefsQuery(refs)
  \/ \E events \in QueryResults(trackStore, "B", RequestedDTags) :
       TrackAnswer(events)
  \/ TrackQueryFailed

TrackSpec == TrackInitState /\ [][TrackNext]_vars

\* The functions of types.ts on every input of the bounded sets.
ParseNext ==
  \/ \E pubkey \in PubkeyStrings, dTag \in DTagStrings : RoundTrip(pubkey, dTag)
  \/ \E event \in TrackEvents : ParseTrack(event)
  \/ \E events \in RecentAnswers : FetchRecent(events)
  \/ \E event \in PlaylistEvents : ParsePlaylist(event)
  \/ ParseReturn

ParseSpec == InitWith({<<>>}, {{}}) /\ [][ParseNext]_vars

\* fetchLikedTracksCached and peekCachedLikedTracks over the query cache.
LikedNext ==
  \/ \E d \in LikedTickSteps : Tick(d)
  \/ \E c \in SwrCallIds : SwrStart(c, TRUE, TRUE)
  \/ \E c \in SwrCallIds, found \in BOOLEAN : LikedCached(c, found)
  \/ \E c \in SwrCallIds, v \in FreshValues : SwrFetched(c, v)
  \/ \E c \in SwrCallIds : SwrWritten(c)
  \/ \E c \in SwrCallIds, v \in FreshValues : RevalFetched(c, v)
  \/ \E c \in SwrCallIds : RevalWritten(c)
  \/ \E found \in BOOLEAN : PeekLiked(found)
  \/ PeekReturn

LikedSpec == SwrSpecInit /\ [][LikedNext]_vars

\* The pool and its relay list, driven by the callers of client.ts.
PoolNext ==
  \/ \E relays \in RelayLists : InitPool(relays)
  \/ \E relays \in RelayLists : SetRelays(relays)
  \/ ClosePool
  \/ GetPool
  \/ QuerySent

PoolSpec == InitWith({<<>>}, {{}}) /\ [][PoolNext]_vars

\* The cached fetchers: swr with callbacks, and the catch branch around it.
CachedNext ==
  \/ Tick(2 * staleThreshold)
  \/ \E c \in SwrCallIds : SwrStart(c, TRUE, TRUE)
  \/ \E c \in SwrCallIds : SwrCached(c)
  \/ \E c \in SwrCallIds : SwrReadFailed(c)
  \/ \E c \in SwrCallIds, v \in FreshValues : SwrFetched(c, v)
  \/ \E c \in SwrCallIds : SwrFetchFailed(c)
  \/ \E c \in SwrCallIds : SwrWritten(c)
  \/ \E c \in SwrCallIds : SwrWriteFailed(c)
  \/ \E c \in SwrCallIds, v \in FreshValues : RevalFetched(c, v)
  \/ \E c \in SwrCallIds : RevalFetchFailed(c)
  \/ \E c \in SwrCallIds : RevalWritten(c)
  \/ \E c \in SwrCallIds : RevalWriteFailed(c)
  \/ \E c \in SwrCallIds, ok \in BOOLEAN, v \in FallbackValues :
       FetcherCaught(c, ok, v)

CachedSpec == SwrSpecInit /\ [][CachedNext]_vars

\* fetchArtistWithGossip for any author, whatever relay list the bootstrap
\* relays return for them.
GossipNext ==
  \/ \E a \in Users : GossipStart(a)
  \/ \E found \in BOOLEAN, tags \in TagLists : GossipNip65(found, tags)
  \/ GossipNip65Failed
  \/ \E ok \in BOOLEAN : GossipProfile(ok)
  \/ \E ok \in BOOLEAN : GossipTracks(ok)

GossipSpec == InitWith({<<>>}, {{}}) /\ [][GossipNext]_vars

\* ====================================================================
\* Properties of the pending broadcast queue (checked under QueueSpec)
\* ====================================================================

\* A step in which a retryPendingEvents call ends.
SweepEnds == sweep'.pc = "done" /\ (sweep.pc = "publishing" \/ sweeps' # sweeps)

\* The item of the queue q with the id of ev, if any.
QueuedAs(q, ev) == {q[j] : j \in {k \in 1..Len(q) : EventId(q[k].event) = EventId(ev)}}

\* C2: an item that addPendingEvent put in the queue while a sweep was in
\* flight (it is in the queue when the sweep writes back, and was not in the
\* queue the sweep loaded) is still in the queue when the sweep has finished.
C2_AddedDuringSweepKept ==
  [][SweepEnds =>
       \A j \in 1..Len(pendingStore) :
         EventId(pendingStore[j].event) \notin QueuedIds(sweep'.pending)
           => EventId(pendingStore[j].event) \in QueuedIds(pendingStore')]_vars

\* C3: no two queued items have the same event id, and an addPendingEvent of
\* an id that is already queued leaves the queue as it is.
C3_DedupById ==
  /\ [](\A i, j \in 1..Len(pendingStore) :
          i # j => EventId(pendingStore[i].event) # EventId(pendingStore[j].event))
  /\ [][\A ev \in QueueEvents, rs \in SUBSET Relays :
          (CaptureFailedPublish(ev, rs) /\ EventId(ev) \in QueuedIds(pendingStore))
            => pendingStore' = pendingStore]_vars

\* C3 witness: two addPendingEvent calls were made in a session that started
\* with an empty queue and ran no sweep, one of them for an id already queued
\* with another relay set: one item, with the relay set and time of the first.
C3_Witness ==
  /\ calls = 2 /\ sweeps = 0 /\ now > 0
  /\ Len(pendingStore) = 1
  /\ pendingStore[1].event = DeletionEvent("A", RefOf(OldLike("A")), 0)
  /\ pendingStore[1].createdAt = 0 /\ pendingStore[1].retryCount = 0
  /\ pendingStore[1].targetRelays = {"r1"}

\* C4: when a sweep ends, every item it loaded that was neither older than 7
\* days nor at 10 retries and whose publish was accepted by all its target
\* relays is absent from the queue, and every such item whose publish failed
\* is queued with retryCount one higher and nothing else changed.
C4_SweepOutcome ==
  [][SweepEnds =>
       \A k \in 1..Len(sweep'.pending) :
         LET item == sweep'.pending[k]
         IN (sweep'.startedAt - item.createdAt <= 7 * 24 * 60 * 60 * 1000
             /\ item.retryCount < 10) =>
              /\ sweep'.did[k] = "ok" => QueuedAs(pendingStore', item.event) = {}
              /\ sweep'.did[k] = "fail" =>
                   QueuedAs(pendingStore', item.event) =
                     {[event |-> item.event, targetRelays |-> item.targetRelays,
                       createdAt |-> item.createdAt,
                       retryCount |-> item.retryCount + 1]}]_vars

\* C4 witness: a finished sweep of two items, the first published, the second
\* failed and requeued.
C4_Witness ==
  /\ sweep.pc = "done" /\ Len(sweep.pending) = 2
  /\ sweep.did[1] = "ok" /\ sweep.did[2] = "fail"
  /\ Len(pendingStore) = 1
  /\ pendingStore[1].retryCount = sweep.pending[2].retryCount + 1

\* C5: when a sweep ends, every item it loaded that was older than 7 days when
\* the sweep started, and every item it loaded with retryCount >= 10 whatever
\* its age, was dropped without a publish attempt and is absent from the queue.
C5_Eviction ==
  [][SweepEnds =>
       \A k \in 1..Len(sweep'.pending) :
         LET item == sweep'.pending[k]
         IN (sweep'.startedAt - item.createdAt > 7 * 24 * 60 * 60 * 1000
             \/ item.retryCount >= 10) =>
              /\ sweep'.did[k] \in {"old", "retries"}
              /\ QueuedAs(pendingStore', item.event) = {}]_vars

\* C5 witness: a finished sweep that dropped an item at 10 retries that was
\* not older than 7 days.
C5_Witness ==
  /\ sweep.pc = "done"
  /\ \E k \in 1..Len(sweep.pending) :
       /\ sweep.did[k] = "retries"
       /\ sweep.pending[k].retryCount = 10
       /\ now - sweep.pending[k].createdAt <= MaxAgeMs
  /\ pendingStore = <<>>

\* C5, the age branch: a finished sweep that dropped an item older than 7 days
\* with fewer than 10 retries.
C5_WitnessOld ==
  /\ sweep.pc = "done"
  /\ \E k \in 1..Len(sweep.pending) :
       /\ sweep.did[k] = "old"
       /\ sweep.pending[k].retryCount < 10
       /\ sweep.startedAt - sweep.pending[k].createdAt = MaxAgeMs + 1

\* C32: when two sweeps that overlapped in time have both finished, an item
\* that one of them published to all its target relays is not in the queue.
C32_ConfirmedStaysRemoved ==
  (sweep.pc = "done" /\ rival.pc = "done" /\ sweeps = 1) =>
    \A sw \in {sweep, rival} : \A k \in 1..Len(sw.pending) :
      sw.did[k] = "ok"
        => EventId(sw.pending[k].event) \notin QueuedIds(pendingStore)

\* The retryCount of the queued item with the id of ev, in the queue q.
RetryCountOf(q, ev) ==
  LET k == CHOOSE j \in 1..Len(q) : EventId(q[j].event) = EventId(ev)
  IN q[k].retryCount

\* C37: every queued item has 0 <= retryCount <= 10; an item that enters the
\* queue through addPendingEvent has retryCount 0; the retryCount of an item
\* does not decrease while it is queued; and retryPendingEvents attempts a
\* publish only of an item with fewer than 10 failed attempts behind it.
C37_RetryCeiling ==
  /\ [](\A i \in 1..Len(pendingStore) :
          pendingStore[i].retryCount \in 0..10)
  /\ [][\A ev \in QueueEvents :
          /\ (calls' # calls /\ EventId(ev) \notin QueuedIds(pendingStore)
                /\ EventId(ev) \in QueuedIds(pendingStore'))
               => RetryCountOf(pendingStore', ev) = 0
          /\ (EventId(ev) \in QueuedIds(pendingStore)
                /\ EventId(ev) \in QueuedIds(pendingStore'))
               => RetryCountOf(pendingStore', ev) >= RetryCountOf(pendingStore, ev)]_vars
  /\ [](\A sw \in {sweep, rival} :
          sw.pc = "publishing" => sw.pending[sw.i].retryCount < 10)

\* C38: when a preloadLikedTracks ends whose query was in flight while
\* likeTrack of the same user added a track to the cache, and the track is
\* still in the cache at that moment, isTrackLiked for that user and track
\* answers true afterwards.
C38_OptimisticLikeSurvivesPreload ==
  [][ ( /\ preload.pc = "fetching" /\ preload'.pc = "idle"
        /\ like.pc = "lookup" /\ like.duringPreload
        /\ like.user = preload.user
        /\ like.track \in likedTracksCache.refs )
      => isTrackLiked(likedTracksCache', likedTracksCacheUserPubkey',
                      relayStore', like.user, like.track) ]_vars

\* C39: when the pool is created again (by getPool or by a query) after the
\* caller gave a relay list to setRelays or initPool and then called
\* closePool, getRelays() returns that list, and a query sent in that step
\* goes to that list.
C39_RelaysSurviveRestart ==
  [][ ( /\ client.configured # <<>> /\ client.closed
        /\ ~client.pool /\ client'.pool
        /\ client'.configured = client.configured /\ client'.closed )
      => /\ <<getRelays(client')>> = client.configured
         /\ client'.queried \in {client.queried, client.configured} ]_vars

\* C40: when a loginWithNsec or loginWithBunker call raises, or a
\* restoreSession call returns null, and nobody was logged in when the call
\* was made and no other login or restore call has been made, isLoggedIn() is
\* false and no signer is configured.
C40_FailedLoginLeavesNoSession ==
  [][ \A c \in AuthCallIds :
        ( /\ authCalls[c].pc # "done" /\ authCalls'[c].pc = "done"
          /\ authCalls'[c].result \in {"threw", "null"}
          /\ ~authCalls'[c].wasLoggedIn
          /\ \A d \in AuthCallIds \ {c} : authCalls'[d].pc = "idle" )
        => (~isLoggedIn' /\ currentSigner' = None) ]_vars

EndedSigned(call) == call.pc = "done" /\ call.event # NoEvent

\* The call published its event and every relay of the target set accepted it.
AcceptedByAll(call) == call.targetRelays # {} /\ call.accepted = call.targetRelays

\* The call published its event and some relay of the target set rejected it.
PublishFailed(call) ==
  call.pc = "done" /\ call.targetRelays # {} /\ call.accepted # call.targetRelays

Queued(ev) == EventId(ev) \in QueuedIds(pendingStore)

\* C1: once likeTrack or unlikeTrack has signed an event and has ended
\* (returned or thrown), the event was accepted by every relay of its target
\* set or is in the pending queue.  (Under Spec nothing takes items out of the
\* queue, so this is the state at the end of the call.)
C1_NoSilentLoss ==
  /\ EndedSigned(like) => (AcceptedByAll(like) \/ Queued(like.event))
  /\ EndedSigned(unlike) => (AcceptedByAll(unlike) \/ Queued(unlike.event))

\* C6: when the publish of a like failed, the event is in the pending queue
\* and likeTrack has not raised an error to its caller.
C6_LikeFailureNotRaised ==
  PublishFailed(like) => (Queued(like.event) /\ like.result # "threw")

\* Steps of likeTrack: it signs (and updates the cache); its publish fails.
LikeSigns == like.pc # "lookup" /\ like'.pc = "lookup"
LikePublishFails == like.pc = "publishing" /\ PublishFailed(like')

NoLikeOnRelays(u, t) ==
  ~\E r \in connectedRelays : \E ev \in relayStore[r] :
      ev.kind = 7 /\ ev.pubkey = u /\ ev.a = t
      /\ ev.content \in {"+", "heart", "call-me"}

\* A step in which unlikeTrack is called and its query is answered.
UnlikeCalled ==
  calls' = calls + 1 /\ like' = like /\ unlike'.result # "threw"

\* C8: an unlikeTrack(u, t) called while the relays hold no like by u naming t
\* ends at once returning false, signs no event, and leaves the relays, the
\* liked-tracks cache with its owner, and the pending queue unchanged.
C8_UnlikeNoop ==
  [][(UnlikeCalled /\ NoLikeOnRelays(unlike'.user, unlike'.track)) =>
        /\ unlike'.pc = "done" /\ unlike'.result = "false"
        /\ unlike'.event = NoEvent
        /\ relayStore' = relayStore
        /\ likedTracksCache' = likedTracksCache
        /\ likedTracksCacheUserPubkey' = likedTracksCacheUserPubkey
        /\ pendingStore' = pendingStore]_vars

\* C8 witness: unlikeTrack has returned false for a user whose only reaction
\* to the track on the relays is a "-", with the track in a loaded cache.
C8_Witness ==
  /\ unlike.pc = "done" /\ unlike.result = "false" /\ unlike.user = "A"
  /\ OldDislike("A") \in relayStore["r1"]
  /\ CacheHit("A") /\ unlike.track \in likedTracksCache.refs

\* C9: users A and B each have a "+" reaction on T; after A's like followed
\* by A's unlike (both accepted by all their target relays, which are all the
\* relays that are queried), isTrackLiked(A, T) is false, the deletion names a
\* reaction of A, and B's liked set still contains T.
C9_PerUserIsolation ==
  \A B \in Users :
    ( /\ unlike.pc = "done" /\ unlike.result = "true" /\ unlike.afterLike
      /\ unlike.user = currentSigner /\ B # unlike.user
      /\ like.priorLike /\ AcceptedByAll(like) /\ AcceptedByAll(unlike)
      /\ like.targetRelays = connectedRelays
      /\ unlike.targetRelays = connectedRelays
      /\ preload.pc = "idle" )
    => /\ ~isTrackLiked(likedTracksCache, likedTracksCacheUserPubkey,
                        relayStore, unlike.user, unlike.track)
       /\ unlike.event.e.pubkey = unlike.user
       /\ unlike.track \in fetchUserLikedTrackRefs(relayStore, B)

\* C10: when, among the events the relays hold, every "+" reaction of a user
\* on a track (there is one) is named by a deletion event of that user, the
\* freshly computed liked set of the user does not contain the track.
C10_DeletedNotLiked ==
  \A u \in Users, t \in Tracks :
    LET held == UNION {relayStore[r] : r \in connectedRelays}
        likes == {x \in held : x.kind = 7 /\ x.pubkey = u /\ x.a = t
                               /\ x.content = "+"}
        deleted == {x \in likes : \E d \in held :
                       d.kind = 5 /\ d.pubkey = u /\ d.e = RefOf(x)}
    IN (likes # {} /\ deleted = likes)
         => t \notin fetchUserLikedTrackRefs(relayStore, u)

\* The reactions of u naming t that the connected relays hold.
ReactionsOn(u, t) ==
  {ev \in UNION {relayStore[r] : r \in connectedRelays} :
     ev.kind = 7 /\ ev.pubkey = u /\ ev.a = t}

\* A step in which preloadLikedTracks computes the liked set of its user.
LikedSetFetched == preload.pc = "idle" /\ preload'.pc = "fetching"

\* C30: a track is in the liked set fetched for a user only if the relays hold
\* a reaction of that user naming it whose content is "+" or one of the two
\* fixed markers, and the reaction that unlikeTrack names in its deletion is
\* such a reaction; a reaction with any other content ("-") adds nothing to
\* the liked set and is never the one chosen for deletion.
C30_LikeByContentMarker ==
  [][ /\ LikedSetFetched =>
           \A t \in preload'.refs :
             \E ev \in ReactionsOn(preload'.user, t) :
               ev.content \in {"+", "heart", "call-me"}
      /\ (UnlikeCalled /\ unlike'.event # NoEvent) =>
           \E ev \in ReactionsOn(unlike'.user, unlike'.track) :
             /\ unlike'.event.e = RefOf(ev)
             /\ ev.content \in {"+", "heart", "call-me"} ]_vars

\* C30 witness: the liked set of a user whose reaction to the track is a "-"
\* has been fetched, and it is empty.
C30_Witness ==
  /\ preload.pc = "fetching" /\ preload.user = "A"
  /\ \E ev \in ReactionsOn("A", "t1") : ev.content = "-"
  /\ preload.refs = {}

\* A step in which the publish of unlikeTrack's deletion fails.
UnlikePublishFails ==
  /\ unlike.pc = "publishing" /\ unlike'.pc = "done"
  /\ unlike'.accepted # unlike'.targetRelays

\* C34: when the publish of the deletion fails, unlikeTrack returns true
\* without raising and the signed deletion is in the pending queue: appended
\* with the call's target relay set, the time and retryCount 0, or, when an
\* item with its id was queued already, with the queue left as it was.
C34_UnlikeFailureQueued ==
  [][UnlikePublishFails =>
       /\ unlike'.result = "true"
       /\ unlike'.event = unlike.event /\ unlike.event.kind = 5
       /\ IF EventId(unlike.event) \in QueuedIds(pendingStore)
            THEN pendingStore' = pendingStore
            ELSE pendingStore' =
                   Append(pendingStore,
                          [event |-> unlike.event,
                           targetRelays |-> unlike.targetRelays,
                           createdAt |-> now, retryCount |-> 0])]_vars

\* C34 witness: unlikeTrack has returned true after a publish that one target
\* relay of two refused, and its deletion is queued with both relays.
C34_Witness ==
  /\ unlike.pc = "done" /\ unlike.result = "true"
  /\ unlike.targetRelays = {"r1", "r2"} /\ unlike.accepted = {"r1"}
  /\ \E i \in 1..Len(pendingStore) :
       /\ pendingStore[i].event = unlike.event
       /\ pendingStore[i].targetRelays = {"r1", "r2"}

\* ====================================================================
\* Properties of the membership cache (checked under MemberSpec)
\* ====================================================================

\* The liked set of u as the connected relays hold it now.
LikedOnRelays(u) ==
  {ev.a : ev \in {x \in UNION {relayStore[r] : r \in connectedRelays} :
                    x.kind = 7 /\ x.pubkey = u
                    /\ x.content \in {"+", "heart", "call-me"}}}

\* A step in which isTrackLiked is called.
IsLikedCalled == member.pc \in {"idle", "done"} /\ member' # member

C12_LogoutClearsCache ==
  [][ logoutCall.pc = "clearing" /\ logoutCall'.pc = "done" =>
        likedTracksCache' = NoCache /\ likedTracksCacheUserPubkey' = None ]_vars

\* C21: with no signer configured, signEvent raises 'Not logged in' and signs
\* nothing, and a likeTrack attempted then ends with that error in the same
\* step, leaving the liked-tracks cache, the pending queue and every relay as
\* they were.
C21_NoSignerPrecondition ==
  [][ currentSigner = None /\ like' # like =>
        /\ like'.pc = "done" /\ like'.result = "Not logged in"
        /\ like'.event = NoEvent /\ like'.accepted = {}
        /\ UNCHANGED <<likedTracksCache, likedTracksCacheUserPubkey,
                       pendingStore, relayStore>> ]_vars

\* A like of t1 was refused after logout while the cache was still loaded
\* without t1: the cache update of a signed like would have shown.
C21_Witness ==
  /\ like.pc = "done" /\ like.result = "Not logged in" /\ like.track = "t1"
  /\ currentSigner = None /\ logoutCall.pc = "done"
  /\ likedTracksCache.loaded /\ "t1" \notin likedTracksCache.refs

\* ====================================================================
\* Partial publish success (checked under Spec)
\* ====================================================================

\* Some relay of the target set took the event and some relay refused it.
PartiallyAccepted(accepted, targetRelays) ==
  accepted # {} /\ accepted # targetRelays /\ accepted \subseteq targetRelays

\* C25: a publish that at least one target relay accepts and another rejects
\* is not a failed publish: likeTrack ends without an error and without
\* queueing the event, and a retry sweep does not count the attempt as a
\* failure.
C25_PartialSuccessNotError ==
  [][ /\ like.pc = "publishing" /\ like'.pc = "done"
         /\ PartiallyAccepted(like'.accepted, like.targetRelays) =>
           like'.result = "returned" /\ pendingStore' = pendingStore
      /\ sweep.pc = "publishing" /\ sweep' # sweep
         /\ (\E r \in sweep.pending[sweep.i].targetRelays :
               sweep.pending[sweep.i].event \in relayStore'[r]
                 /\ sweep.pending[sweep.i].event \notin relayStore[r])
         /\ (\E r \in sweep.pending[sweep.i].targetRelays :
               sweep.pending[sweep.i].event \notin relayStore'[r]) =>
           \A k \in 1..Len(sweep'.remaining) :
             sweep'.remaining[k].event = sweep.pending[sweep.i].event =>
               sweep'.remaining[k].retryCount = sweep.pending[sweep.i].retryCount
    ]_vars

\* ====================================================================
\* Properties of the parsers of types.ts (checked under ParseSpec)
\* ====================================================================

\* C27: for every author key and d tag, d tags containing ':' included,
\* parseTrackReference(createTrackReference(pubkey, dTag)) is the reference
\* (track kind, pubkey, dTag).
C27_ReferenceRoundTrip ==
  parseCall.fn = "roundTrip" =>
    parseCall.output
      = [kind |-> 36787, pubkey |-> parseCall.pubkey, dTag |-> parseCall.dTag]

\* The tag an event is read by: its first tag named key.
FirstTagNamed(tags, key) ==
  IF \E i \in 1..Len(tags) : tags[i] # <<>> /\ tags[i][1] = key
    THEN tags[CHOOSE i \in 1..Len(tags) :
                /\ tags[i] # <<>> /\ tags[i][1] = key
                /\ \A j \in 1..(i - 1) : tags[j] = <<>> \/ tags[j][1] # key]
    ELSE <<>>

PresentNonEmpty(event, key) ==
  LET tag == FirstTagNamed(event.tags, key)
  IN Len(tag) >= 2 /\ tag[2] # ""

HasRequiredTags(event) ==
  \A key \in {"d", "title", "artist", "url"} : PresentNonEmpty(event, key)

\* C28: for a track-kind event parseMusicTrackEvent returns an entity, with
\* id, pubkey, createdAt, d, title, artist and url equal to the source, exactly
\* when its d, title, artist and url tags are present and non-empty, and null
\* otherwise; fetchRecentTracks returns one track for every event that has
\* them and none for an event that lacks one.
C28_TrackParsing ==
  /\ (parseCall.fn = "parseMusicTrackEvent"
        /\ parseCall.event.kind = MUSIC_TRACK_KIND) =>
       LET event == parseCall.event
           track == parseCall.output
       IN IF HasRequiredTags(event)
            THEN /\ track # NullTrack
                 /\ track.id = event.id
                 /\ track.pubkey = event.pubkey
                 /\ track.createdAt = event.created_at
                 /\ \A key \in {"d", "title", "artist", "url"} :
                      track[key] = FirstTagNamed(event.tags, key)[2]
            ELSE track = NullTrack
  /\ parseCall.fn = "fetchRecentTracks" =>
       LET events == parseCall.events
           tracks == parseCall.output
       IN /\ \A i \in 1..Len(events) :
               HasRequiredTags(events[i])
                 <=> \E j \in 1..Len(tracks) : tracks[j].id = events[i].id
          /\ Len(tracks)
               = Cardinality({i \in 1..Len(events) : HasRequiredTags(events[i])})

\* A track event without url arrived between two complete ones: the result
\* holds the two complete ones.
C28_Witness ==
  /\ parseCall.fn = "fetchRecentTracks"
  /\ Len(parseCall.events) = 3
  /\ parseCall.events[2].id = "e2"
  /\ Len(parseCall.output) = 2

\* A pointer of three parts whose kind is the track kind.
WellFormedPointer(pointer) ==
  /\ pointer # UndefinedPointer
  /\ Len(Split(pointer)) = 3
  /\ Split(pointer)[1] = KindString

RECURSIVE WellFormedRefs(_)
WellFormedRefs(pointers) ==
  IF pointers = <<>> THEN <<>>
  ELSE LET parts == Split(Head(pointers))
       IN IF WellFormedPointer(Head(pointers))
            THEN <<[kind |-> 36787, pubkey |-> parts[2], dTag |-> parts[3]]>>
                   \o WellFormedRefs(Tail(pointers))
            ELSE WellFormedRefs(Tail(pointers))

\* C29: for a playlist event that has its required tags, parsePlaylistEvent
\* returns a playlist whose trackRefs are the references of the well-formed
\* 'a' pointers, one each and in their order; a malformed pointer (wrong
\* number of parts, a kind other than the track kind) is dropped and the
\* playlist is still returned.
C29_PlaylistTrackRefs ==
  (/\ parseCall.fn = "parsePlaylistEvent"
   /\ parseCall.event.kind = PLAYLIST_KIND
   /\ \A key \in {"d", "title", "alt"} : PresentNonEmpty(parseCall.event, key)) =>
    /\ ~parseCall.output.raised
    /\ parseCall.output.value # NullPlaylist
    /\ parseCall.output.value.trackRefs
         = WellFormedRefs(Pointers(parseCall.event.tags))

\* ====================================================================
\* Properties of the cached fetchers (checked under CachedSpec)
\* ====================================================================

\* getCached rejected: swr rejected before any fetch.
CacheReadFailed(call) ==
  call.pc = "done" /\ call.outcome = "threw" /\ call.fetchCalls = 0

\* setCache rejected after fetchFresh had resolved, on the miss path.
CacheWriteFailed(call) ==
  call.pc = "done" /\ call.outcome = "threw" /\ call.setCalls = 1

\* C35: whenever fetchPlaylistWithTracksCached answers from the cache with an
\* empty track list for a playlist that has track references, a background
\* revalidation has been started for that call, and when that revalidation
\* has succeeded the playlist with its tracks was delivered through onUpdate.
C35_CachedPlaylistGetsTracks ==
  \A c \in SwrCallIds :
    (/\ swrCalls[c].pc = "done" /\ swrCalls[c].outcome = "returned"
     /\ PlaylistResult(c).tracks = <<>>
     /\ PlaylistResult(c).playlist.trackRefs # <<>>) =>
      /\ swrCalls[c].bg # "none"
      /\ swrCalls[c].bg = "done" =>
           \E i \in 1..Len(swrCalls[c].updates) :
             WithTracks(swrCalls[c].updates[i]).tracks # <<>>

\* The query record of the cache entry has expired at time t.
Expired(entry, t) == entry.present /\ entry.fetchedAt + 5 * 60 * 1000 <= t

\* A step in which getCached of fetchLikedTracksCached answers call c.
LikedRead(c) == swrCalls[c].pc = "reading" /\ swrCalls'[c].pc # "reading"

\* C36: fetchLikedTracksCached and peekCachedLikedTracks never serve a cached
\* result whose query record has expired (fetched_at + fresh duration <= now):
\* the fetcher takes the miss path, with a synchronous fetchFresh and no
\* cached data, and peek answers null.
C36_ExpiredNeverServed ==
  /\ [](\A c \in SwrCallIds :
          swrCalls[c].cached.present => swrCalls[c].age < 5 * 60 * 1000)
  /\ [](peek.served => ~Expired(peek.record, peek.at))
  /\ [](peek.pc = "done" /\ Expired(peek.record, peek.at) => peek.data = "none")
  /\ [][\A c \in SwrCallIds :
          (LikedRead(c) /\ Expired(cacheEntry, now)) =>
             /\ swrCalls'[c].pc = "fetching"
             /\ ~swrCalls'[c].cached.present
             /\ swrCalls'[c].fetchCalls = 1
             /\ swrCalls'[c].bg = "none"]_vars

\* C36 witness: a record written at time 0 was read at the instant it expired:
\* the fetcher went to the network and returned the fetched data, and peek
\* answered null.
C36_Witness ==
  /\ peek.pc = "done" /\ ~peek.served
  /\ peek.record.present /\ peek.at = peek.record.fetchedAt + 5 * 60 * 1000
  /\ \E c \in SwrCallIds :
       /\ swrCalls[c].pc = "done" /\ swrCalls[c].outcome = "returned"
       /\ ~swrCalls[c].result.fromCache
       /\ swrCalls[c].fetchedAt = 5 * 60 * 1000

OwnWriteRelays == {r \in {"r1", "r2"} :
                     \E i \in 1..Len(savedNip65) :
                       savedNip65[i].url = r /\ savedNip65[i].write}

\* The read relays a relay list declares.
DeclaredReadRelays(nip65) ==
  {r \in {"r1", "r2"} : \E i \in 1..Len(nip65) : nip65[i].url = r /\ nip65[i].read}

\* The call has computed its target relay set.
Resolved(call) ==
  call.pc = "publishing" \/ (call.pc = "done" /\ call.targetRelays # {})

\* A step in which the call's publish fails and the call hands its event to
\* the queue.
PublishFailsFor(call, callAfter) ==
  call.pc = "publishing" /\ callAfter.pc = "done"
    /\ callAfter.accepted # call.targetRelays

\* C23 as stated: the target relay set of likeTrack and of unlikeTrack is
\* exactly the user's own write relays plus the track author's declared read
\* relays, and a failed publish leaves the event in the queue recorded with
\* that set.
C23_OutboxTargets ==
  /\ [](\A call \in {like, unlike} :
          Resolved(call) =>
            call.targetRelays
              = OwnWriteRelays \cup DeclaredReadRelays(call.artistNip65))
  /\ [][ /\ PublishFailsFor(like, like') =>
              \E i \in 1..Len(pendingStore') :
                /\ pendingStore'[i].event = like.event
                /\ pendingStore'[i].targetRelays = like.targetRelays
         /\ PublishFailsFor(unlike, unlike') =>
              \E i \in 1..Len(pendingStore') :
                /\ pendingStore'[i].event = unlike.event
                /\ pendingStore'[i].targetRelays = unlike.targetRelays ]_vars

\* What the queue holds after `call` handed it its event: the queue as it
\* was when the event's id is already in it, else one more item, with the
\* call's target set.
RecordedWithTargets(call) ==
  IF \E i \in 1..Len(pendingStore) : pendingStore[i].event = call.event
    THEN pendingStore' = pendingStore
    ELSE /\ Len(pendingStore') = Len(pendingStore) + 1
         /\ SubSeq(pendingStore', 1, Len(pendingStore)) = pendingStore
         /\ pendingStore'[Len(pendingStore')].event = call.event
         /\ pendingStore'[Len(pendingStore')].targetRelays = call.targetRelays

\* C23, amended: the target relay set of likeTrack and of unlikeTrack is the
\* user's saved write relays, or the saved bootstrap relays when the user has
\* saved no write relay, plus the track author's declared read relays; a
\* failed publish appends the event to the queue with that set, unless an
\* item with the same event id is queued already, which is then kept as is.
C23_OutboxTargetsWithFallback ==
  /\ [](\A call \in {like, unlike} :
          Resolved(call) =>
            call.targetRelays
              = (IF OwnWriteRelays = {} THEN {"r1", "r2"} ELSE OwnWriteRelays)
                  \cup DeclaredReadRelays(call.artistNip65))
  /\ [][ /\ PublishFailsFor(like, like') => RecordedWithTargets(like)
         /\ PublishFailsFor(unlike, unlike') => RecordedWithTargets(unlike)
       ]_vars

\* A user with r1 as write relay liked a track whose author reads on r2; the
\* publish to {r1, r2} failed and the like is queued with both relays.
C23_Witness ==
  /\ OwnWriteRelays = {"r1"}
  /\ like.pc = "done" /\ like.result = "threw"
  /\ like.targetRelays = {"r1", "r2"}
  /\ DeclaredReadRelays(like.artistNip65) = {"r2"}
  /\ Len(pendingStore) = 1 /\ pendingStore[1].event = like.event
  /\ pendingStore[1].targetRelays = {"r1", "r2"}

\* ====================================================================
\* Properties of the identifier-keyed queries (checked under TrackSpec)
\* ====================================================================

\* The highest created_at among the versions of address `ref` that the
\* connected relays hold between them; 0 when they hold none.
NewestHeld(ref) ==
  LET held == {ev \in UNION {trackStore[r] : r \in {"r1", "r2"}} :
                 ev.pubkey = ref[1] /\ \E i \in 1..Len(ev.tags) :
                                         ev.tags[i] = <<"d", ref[2]>>}
  IN IF held = {} THEN 0
     ELSE CHOOSE c \in {ev.created_at : ev \in held} :
            \A ev \in held : ev.created_at <= c

\* C24: when the queried relays hold versions of one address with different
\* created_at, fetchTrack, fetchTracksByRefs and the per-track lookup of
\* fetchLikedTracks resolve the address to the version with the highest
\* created_at, in whatever order the relays deliver.
C24_LastWriterWins ==
  trackFetch.pc = "done" /\ trackFetch.fn # "threw" =>
    \A i \in 1..Len(trackFetch.result) :
      LET t == trackFetch.result[i]
      IN t.createdAt = NewestHeld(<<t.pubkey, t.d>>)

\* ====================================================================
\* Properties of gossip resolution (checked under GossipSpec)
\* ====================================================================

\* The elements of an array.
Elements(xs) == {xs[i] : i \in 1..Len(xs)}

\* The relays a relay list event declares for writing: an 'r' tag with a url
\* and no marker, or the marker "write".
DeclaredWriteRelays(tags) ==
  {t[2] : t \in {x \in Elements(tags) :
                   x[1] = "r" /\ x[2] # "" /\ (Len(x) = 2 \/ x[3] = "write")}}

\* C22: fetchArtistWithGossip first queries the bootstrap relays for the
\* author's relay list; the profile and track queries then go to exactly the
\* bootstrap relays plus the author's declared write relays, each once, and
\* to exactly the bootstrap relays when no relay list was found.
C22_GossipResolution ==
  /\ Len(gossip.queries) >= 1 =>
       gossip.queries[1] = [kind |-> "relay-list", relays |-> <<"r1", "r2">>]
  /\ Len(gossip.queries) > 1 =>
       /\ Len(gossip.queries) = 3
       /\ {gossip.queries[k].kind : k \in 2..3} = {"profile", "tracks"}
       /\ \A k \in 2..3 :
            LET asked == gossip.queries[k].relays
            IN /\ Elements(asked) = {"r1", "r2"} \cup DeclaredWriteRelays(gossip.tags)
               /\ Cardinality(Elements(asked)) = Len(asked)
               /\ ~gossip.found => asked = <<"r1", "r2">>

\* The author declared r1 (a bootstrap relay) for writing, x for both and y
\* read-only: the fetches went to r1, r2 and x, and the call returned.
C22_Witness ==
  /\ gossip.pc = "done" /\ gossip.result = "returned"
  /\ gossip.tags = <<<<"r", "r1", "write">>, <<"r", "x">>, <<"r", "y", "read">>>>
  /\ gossip.queries[3].relays = <<"r1", "r2", "x">>

\* ====================================================================
\* Properties of swr (checked under SwrSpec)
\* ====================================================================

\* Age of the entry getCached answered with, when it answered.
Age(call) == call.age

\* C13: a swr call that finds a cached value younger than the staleness
\* threshold returns it with fromCache = true, isRevalidating = false, and
\* never calls fetchFresh or setCache.
C13_SwrFreshHit ==
  \A c \in SwrCallIds :
    LET call == swrCalls[c]
    IN call.cached.present /\ Age(call) < 2 * 60 * 1000 =>
         /\ call.pc = "done" /\ call.outcome = "returned"
         /\ call.result = [data |-> call.cached.data, fromCache |-> TRUE,
                           isRevalidating |-> FALSE]
         /\ call.fetchCalls = 0 /\ call.setCalls = 0 /\ call.bg = "none"

\* A call answered at time > 0 from an entry of age 0, written by an
\* earlier miss.
C13_Witness ==
  \E c \in SwrCallIds :
    /\ swrCalls[c].cached.present /\ Age(swrCalls[c]) = 0
    /\ swrCalls[c].cached.fetchedAt > 0
    /\ swrCalls[c].outcome = "returned" /\ swrCalls[c].fetchCalls = 0

\* C14: a swr call that finds a cached value of age twice the threshold
\* returns the stale value with fromCache = true, isRevalidating = true, and
\* makes exactly one fetchFresh call, in the background, then and ever after.
C14_SwrStaleHit ==
  \A c \in SwrCallIds :
    LET call == swrCalls[c]
    IN call.cached.present /\ Age(call) = 2 * (2 * 60 * 1000) =>
         /\ call.pc = "done" /\ call.outcome = "returned"
         /\ call.result = [data |-> call.cached.data, fromCache |-> TRUE,
                           isRevalidating |-> TRUE]
         /\ call.fetchCalls = 1 /\ call.bg # "none"

\* The background call of such a swr call has run to its end.
C14_Witness ==
  \E c \in SwrCallIds :
    /\ swrCalls[c].cached.present /\ Age(swrCalls[c]) = 2 * (2 * 60 * 1000)
    /\ swrCalls[c].bg = "done" /\ swrCalls[c].fetchCalls = 1

\* C33, as claimed: a swr call that finds a cached value returns it as stale
\* and starts a background fetch exactly when its age is greater than or equal
\* to the staleness threshold.
C33_StaleFromThreshold ==
  \A c \in SwrCallIds :
    LET call == swrCalls[c]
    IN call.cached.present =>
         /\ call.result.isRevalidating <=> Age(call) >= 2 * 60 * 1000
         /\ call.bg # "none" <=> Age(call) >= 2 * 60 * 1000

\* C33, amended: a swr call that finds a cached value returns it as stale and
\* starts a background fetch exactly when its age is greater than the
\* staleness threshold; a value whose age equals the threshold is returned as
\* fresh, with no fetch.
C33_StalePastThreshold ==
  \A c \in SwrCallIds :
    LET call == swrCalls[c]
    IN call.cached.present =>
         /\ call.result.isRevalidating <=> Age(call) > 2 * 60 * 1000
         /\ call.bg # "none" <=> Age(call) > 2 * 60 * 1000
         /\ Age(call) = 2 * 60 * 1000 => call.fetchCalls = 0

\* A call has been answered from an entry whose age is the threshold.
C33_Witness ==
  \E c \in SwrCallIds :
    /\ swrCalls[c].cached.present /\ Age(swrCalls[c]) = 2 * 60 * 1000
    /\ swrCalls[c].pc = "done" /\ swrCalls[c].outcome = "returned"
    /\ ~swrCalls[c].result.isRevalidating

\* C15: when the background fetchFresh fails, onError is invoked once,
\* setCache and onUpdate are not invoked for that revalidation, the cache
\* entry is left as it was, and no further fetch follows.
C15_SwrBackgroundFailure ==
  /\ [](\A c \in SwrCallIds :
         LET call == swrCalls[c]
         IN call.bg = "failed" /\ call.bgData = "none" =>
              /\ call.errors = (IF call.onError THEN 1 ELSE 0)
              /\ call.setCalls = 0 /\ call.updates = <<>>
              /\ call.bgWritten = "none" /\ call.fetchCalls = 1)
  /\ [][\A c \in SwrCallIds :
          swrCalls[c].bg = "fetching" /\ swrCalls'[c].bg = "failed" =>
            cacheEntry' = cacheEntry]_vars

\* A failed background fetch with onError given; the cache still holds the
\* entry the swr call returned.
C15_Witness ==
  \E c \in SwrCallIds :
    /\ swrCalls[c].bg = "failed" /\ swrCalls[c].bgData = "none"
    /\ swrCalls[c].onError /\ swrCalls[c].errors = 1
    /\ cacheEntry = swrCalls[c].cached

C17_SwrMiss ==
  /\ [](\A c \in SwrCallIds :
         LET call == swrCalls[c]
         IN /\ call.pc \in {"fetching", "writing"} =>
                 call.fetchCalls = 1 /\ call.outcome = "none"
            /\ call.pc = "fetching" => call.setCalls = 0
            /\ call.outcome = "returned" /\ ~call.result.fromCache =>
                 /\ call.fetchCalls = 1 /\ call.setCalls = 1
                 /\ call.bg = "none" /\ ~call.result.isRevalidating
                 /\ call.result.data = call.fresh)
  /\ [][\A c \in SwrCallIds :
          /\ swrCalls[c].pc = "reading" /\ swrCalls'[c].pc # "reading"
             /\ ~cacheEntry.present /\ swrCalls'[c].outcome # "threw" =>
               swrCalls'[c].pc = "fetching" /\ swrCalls'[c].fetchCalls = 1
          /\ swrCalls[c].pc = "fetching" /\ swrCalls'[c].pc = "done" =>
               /\ swrCalls'[c].outcome = "threw" /\ swrCalls'[c].setCalls = 0
               /\ cacheEntry' = cacheEntry
          /\ swrCalls[c].pc = "writing" /\ swrCalls'[c].outcome = "returned" =>
               /\ cacheEntry'.present
               /\ cacheEntry'.data = swrCalls'[c].result.data
               /\ swrCalls'[c].result.data = swrCalls[c].fresh]_vars

\* A miss that fetched, wrote and returned.
C17_Witness ==
  \E c \in SwrCallIds :
    /\ swrCalls[c].outcome = "returned" /\ ~swrCalls[c].result.fromCache
    /\ swrCalls[c].result.data \in FreshValues
    /\ cacheEntry.data = swrCalls[c].result.data

\* C18: a swr call that finds a stale value returns it in the step that
\* starts the background fetch, without waiting for it, and stays returned
\* whether the background fetch is pending, done or failed.
C18_SwrNeverBlocks ==
  /\ [](\A c \in SwrCallIds :
         swrCalls[c].bg # "none" =>
           swrCalls[c].pc = "done" /\ swrCalls[c].outcome = "returned")
  /\ [][\A c \in SwrCallIds :
          /\ swrCalls[c].pc = "reading" /\ swrCalls'[c].pc # "reading"
          /\ cacheEntry.present /\ swrCalls'[c].outcome # "threw"
          /\ now - cacheEntry.fetchedAt > 2 * 60 * 1000
          => /\ swrCalls'[c].outcome = "returned"
             /\ swrCalls'[c].result.data = cacheEntry.data
             /\ swrCalls'[c].bg = "fetching"]_vars

\* One returned call whose background fetch is still pending, another whose
\* background fetch failed.
C18_Witness ==
  \E c, d \in SwrCallIds :
    /\ swrCalls[c].bg = "fetching" /\ swrCalls[c].outcome = "returned"
    /\ swrCalls[d].bg = "failed" /\ swrCalls[d].outcome = "returned"

\* ====================================================================
\* Properties of the session (checked under AuthSpec)
\* ====================================================================

\* C19: when restoreSession is called while an earlier restoreSession is in
\* flight, the two calls make one restoration attempt between them (one
\* login is entered) and end with the same outcome.
C19_RestoreGuarded ==
  \A c, d \in AuthCallIds :
    ( /\ c < d
      /\ authCalls[c].kind = "restore" /\ authCalls[d].kind = "restore"
      /\ authCalls[d].overlapping )
    => /\ ~(authCalls[c].handshake /\ authCalls[d].handshake)
       /\ authCalls[c].pc = "done" /\ authCalls[d].pc = "done" =>
            authCalls[c].result = authCalls[d].result

\* A logout that ran with no restore or login call in flight, from its
\* call to its return, and whose vault operation succeeded, returns.
QuietLogoutReturns ==
  /\ logoutCall.pc = "clearing" /\ logoutCall'.pc = "done"
  /\ logoutCall'.cleared /\ logoutCall.quiet
  /\ \A c \in AuthCallIds : authCalls[c].pc \in {"idle", "done"}
  /\ logoutCall.used = Cardinality({c \in AuthCallIds : authCalls[c].pc # "idle"})

\* C20: when logout returns there is no current user and no signer, no
\* delegated-signer session is open or kept, and the stored (method,
\* credential) pair is gone.
C20_LogoutCompletes ==
  [][ QuietLogoutReturns =>
        /\ currentUser' = None /\ currentSigner' = None
        /\ bunkerInstance' = 0 /\ openBunkers' = {}
        /\ vault' = [method |-> "none", data |-> "none"] ]_vars

====
